---- MODULE Spec2Model ----
(***************************************************************************)
(* A model of esbuild-mdxld (src/src/index.ts).  The file holds two        *)
(* generations of the plugin:                                              *)
(*   - lines 1-237: the resolver with httpCache, fetchWithTimeout and the  *)
(*     'http-import' namespace (SpecImport below);                         *)
(*   - lines 239-462: the bridge with the Store of VirtualFile artifacts,  *)
(*     the 'file', 'virtual' and 'http-url' handlers (SpecBridge), and the *)
(*     metadata normalizer processYamlLd (SpecNorm).                       *)
(* Strings that the code only compares or concatenates are TLA+ strings;   *)
(* strings that the code inspects character by character (metadata keys,   *)
(* document text) are sequences of one-character strings.                  *)
(***************************************************************************)
EXTENDS Integers, Sequences, FiniteSets, TLC

VARIABLES
    now,         \* Date.now(), in abstract clock units
    options,     \* the MDXLDOptions the plugin was constructed with
    httpCache,   \* Map<string, {content, timestamp}>   (index.ts:10)
    importFs,    \* Map<string, string>, the first generation's virtualFs (index.ts:14)
    imp,         \* the http-import load requests, by request number
    netCalls,    \* history: https.get calls issued so far, by address
    metaIn,      \* normalizer: the ParsedMetadata given
    prefer,      \* normalizer: the preference flag given
    once,        \* normalizer: processYamlLd(metaIn, prefer)
    twice,       \* normalizer: processYamlLd(once, prefer)
    passes,      \* normalizer: how many times it has been applied
    virtualFs,   \* Map<string, VirtualFile>, the Store   (index.ts:250)
    br,          \* the 'file' and 'http-url' load requests, by request number
    vlast,       \* the latest 'virtual' load: its key and its result
    lastPut,     \* history: the artifact of the latest virtualFs.set, by key
    ident,       \* onResolve: the identifier esbuild asks about (args.path)
    resolved     \* onResolve: what the latest resolution of it gave

importVars == <<now, options, httpCache, importFs, imp, netCalls>>

\* the resolver's state, the options apart
importState == <<now, httpCache, importFs, imp, netCalls>>

normVars == <<metaIn, prefer, once, twice, passes>>

bridgeVars == <<virtualFs, br, vlast, lastPut>>

resolveVars == <<ident, resolved>>

vars == <<importVars, normVars, bridgeVars, resolveVars>>

(***************************************************************************)
(* Bounds of the model.                                                    *)
(***************************************************************************)
MaxReq == 2
MaxTime == 2
MaxChunks == 1
MaxDepth == 2

\* events of one https.get that arrive after its promise has settled
MaxLate == 1

(***************************************************************************)
(* Program constants.                                                      *)
(***************************************************************************)
CACHE_TTL == 300000
DEFAULT_HTTP_TIMEOUT == 10000

(***************************************************************************)
(* JavaScript helpers: Map, optional options, string building.             *)
(***************************************************************************)
EmptyMap == [k \in {} |-> {}]

MapHas(m, k) == k \in DOMAIN m

MapSetKeepFirst(m, k, v) ==
    IF k \in DOMAIN m THEN m ELSE [x \in (DOMAIN m) \cup {k} |-> IF x = k THEN v ELSE m[x]]

\* a set that drops every other key
MapSetAlone(m, k, v) == [x \in {k} |-> v]

MapSet(m, k, v) == [x \in (DOMAIN m) \cup {k} |-> IF x = k THEN v ELSE m[x]]

\* opt ?? dflt, an optional option being the empty set or a singleton
Nullish(opt, dflt) == IF opt = {} THEN dflt ELSE CHOOSE x \in opt : TRUE

RECURSIVE Concat(_)
Concat(chunks) ==
    IF chunks = <<>> THEN "" ELSE Head(chunks) \o Concat(Tail(chunks))

HttpStatusText(code, msg) == "HTTP " \o ToString(code) \o ": " \o msg

TimeoutText(timeout) == "Request timeout after " \o ToString(timeout) \o "ms"

(***************************************************************************)
(* Text, as sequences of characters.                                       *)
(***************************************************************************)
WordChars ==
    {"a", "b", "c", "d", "e", "f", "g", "h", "i", "j", "k", "l", "m", "n", "o", "p", "q",
     "r", "s", "t", "u", "v", "w", "x", "y", "z", "A", "B", "C", "D", "E", "F", "G", "H",
     "I", "J", "K", "L", "M", "N", "O", "P", "Q", "R", "S", "T", "U", "V", "W", "X", "Y",
     "Z", "0", "1", "2", "3", "4", "5", "6", "7", "8", "9", "_"}

\* \w and \s of the regular expressions
IsWord(c) == c \in WordChars

IsSpace(c) == c \in {" ", "\n", "\t", "\r"}

Sentinel == <<"_", "_", "a", "t", "_", "_">>

IsPrefix(p, s) == Len(p) <= Len(s) /\ SubSeq(s, 1, Len(p)) = p

Drop(s, n) == SubSeq(s, n + 1, Len(s))

RECURSIVE TrimStart(_)
TrimStart(s) == IF s # <<>> /\ IsSpace(Head(s)) THEN TrimStart(Tail(s)) ELSE s

RECURSIVE TrimEnd(_)
TrimEnd(s) ==
    IF s # <<>> /\ IsSpace(s[Len(s)]) THEN TrimEnd(SubSeq(s, 1, Len(s) - 1)) ELSE s

\* String.prototype.trim
Trim(s) == TrimEnd(TrimStart(s))

\* the leading whitespace of a line
RECURSIVE Indent(_)
Indent(line) ==
    IF line # <<>> /\ IsSpace(Head(line)) THEN <<Head(line)>> \o Indent(Tail(line)) ELSE <<>>

\* s.split('\n')
RECURSIVE SplitLines(_)
SplitLines(s) ==
    IF \E i \in 1..Len(s) : s[i] = "\n"
    THEN LET i == CHOOSE j \in 1..Len(s) : s[j] = "\n" /\ \A k \in 1..(j - 1) : s[k] # "\n"
         IN  <<SubSeq(s, 1, i - 1)>> \o SplitLines(Drop(s, i))
    ELSE <<s>>

\* lines.join('\n')
RECURSIVE JoinLines(_)
JoinLines(lines) ==
    IF Len(lines) = 0 THEN <<>>
    ELSE IF Len(lines) = 1 THEN lines[1]
    ELSE lines[1] \o <<"\n">> \o JoinLines(Tail(lines))

\* the length of the longest run of \w at the head of s
RECURSIVE WordRun(_)
WordRun(s) == IF s # <<>> /\ IsWord(Head(s)) THEN 1 + WordRun(Tail(s)) ELSE 0

\* s begins with @\w+:
AtKeyAhead(s) ==
    /\ IsPrefix(<<"@">>, s)
    /\ WordRun(Tail(s)) > 0
    /\ Len(s) >= WordRun(Tail(s)) + 2
    /\ s[WordRun(Tail(s)) + 2] = ":"

(***************************************************************************)
(* The frontmatter expression /^---\n([\s\S]*?)\n---/, index.ts:376.       *)
(***************************************************************************)
OpenMarker == <<"-", "-", "-", "\n">>

CloseMarker == <<"\n", "-", "-", "-">>

ClosesAt(s, i) == i + 3 <= Len(s) /\ SubSeq(s, i, i + 3) = CloseMarker

\* the expression without its anchor: the opening marker found anywhere
FrontmatterMatchAnywhere(s) ==
    LET Opens(p) == p + 3 <= Len(s) /\ SubSeq(s, p, p + 3) = OpenMarker
        Matches(p, i) == Opens(p) /\ i >= p + 4 /\ ClosesAt(s, i)
    IN  IF \E p, i \in 1..Len(s) : Matches(p, i)
        THEN LET p == CHOOSE q \in 1..Len(s) :
                          /\ \E i \in 1..Len(s) : Matches(q, i)
                          /\ \A k \in 1..(q - 1) : ~\E i \in 1..Len(s) : Matches(k, i)
                 i == CHOOSE j \in 1..Len(s) :
                          Matches(p, j) /\ \A k \in 1..(j - 1) : ~Matches(p, k)
             IN  [found |-> TRUE, group |-> SubSeq(s, p + 4, i - 1), length |-> i + 3 - (p - 1)]
        ELSE [found |-> FALSE, group |-> <<>>, length |-> 0]

\* contents.match(...): whether it matched, group 1, and the length of match[0]
FrontmatterMatch(s) ==
    IF IsPrefix(OpenMarker, s) /\ \E i \in 5..Len(s) : ClosesAt(s, i)
    THEN LET i == CHOOSE j \in 5..Len(s) : ClosesAt(s, j) /\ \A k \in 5..(j - 1) : ~ClosesAt(s, k)
         IN  [found |-> TRUE, group |-> SubSeq(s, 5, i - 1), length |-> i + 3]
    ELSE [found |-> FALSE, group |-> <<>>, length |-> 0]

(***************************************************************************)
(* preprocessYaml, index.ts:252-277.                                       *)
(***************************************************************************)
\* .replace(/^(@\w+):/gm, '__at__$1:'), line by line
ReplaceAtLineStart(s) ==
    LET lines == SplitLines(s)
    IN  JoinLines([i \in 1..Len(lines) |->
                      IF AtKeyAhead(lines[i]) THEN Sentinel \o lines[i] ELSE lines[i]])

\* .replace(/(\s+)(@\w+):/g, '$1__at__$2:'): a match is a run of whitespace
\* followed by @\w+: ; prev tells whether the character before s is whitespace
RECURSIVE ReplaceAfterSpace(_, _)
ReplaceAfterSpace(s, prev) ==
    IF s = <<>> THEN <<>>
    ELSE IF prev /\ AtKeyAhead(s)
         THEN LET n == WordRun(Tail(s)) + 2
              IN  Sentinel \o SubSeq(s, 1, n) \o ReplaceAfterSpace(Drop(s, n), FALSE)
         ELSE <<Head(s)>> \o ReplaceAfterSpace(Tail(s), IsSpace(Head(s)))

RelationKeys ==
    {<<"a", "u", "t", "h", "o", "r">>, <<"c", "r", "e", "a", "t", "o", "r">>,
     <<"p", "u", "b", "l", "i", "s", "h", "e", "r">>}

\* line.match(/^(\s*)(author|creator|publisher):\s*(@\w+):(.*)$/)
RelationMatch(line) ==
    LET indent == Indent(line)
        rest == Drop(line, Len(indent))
    IN  IF \E key \in RelationKeys :
               /\ IsPrefix(key \o <<":">>, rest)
               /\ AtKeyAhead(TrimStart(Drop(rest, Len(key) + 1)))
        THEN LET key == CHOOSE k \in RelationKeys : IsPrefix(k \o <<":">>, rest)
                 tail == TrimStart(Drop(rest, Len(key) + 1))
                 n == WordRun(Tail(tail)) + 1
             IN  [found |-> TRUE, indent |-> indent, key |-> key,
                  type |-> SubSeq(tail, 1, n), rest |-> Drop(tail, n + 1)]
        ELSE [found |-> FALSE, indent |-> <<>>, key |-> <<>>, type |-> <<>>, rest |-> <<>>]

\* the loop over the lines (261-274): result so far, currentIndent
RECURSIVE PreprocessLines(_, _)
PreprocessLines(lines, currentIndent) ==
    IF lines = <<>> THEN <<>>
    ELSE LET line == Head(lines)
             m == RelationMatch(line)
         IN  IF m.found
             THEN <<m.indent \o m.key \o <<":">>,
                    m.indent \o <<" ", " ">> \o Sentinel \o m.type \o <<":">> \o m.rest>>
                      \o PreprocessLines(Tail(lines), m.indent)
             ELSE IF IsPrefix(<<"@">>, Trim(line))
                  THEN <<currentIndent \o Sentinel \o Trim(line)>>
                           \o PreprocessLines(Tail(lines), currentIndent)
                  ELSE <<line>> \o PreprocessLines(Tail(lines), currentIndent)

preprocessYaml(content) ==
    JoinLines(PreprocessLines(
        SplitLines(ReplaceAfterSpace(ReplaceAtLineStart(content), FALSE)), <<>>))

(***************************************************************************)
(* ParsedMetadata.  A value is a pair <<tag, payload>>: a scalar           *)
(* (<<"num", 1>>, <<"str", text>>, <<"bool", TRUE>>, <<"null", "null">>), a  *)
(* list <<"list", <<v1, ...>>>> or a mapping <<"map", <<e1, ...>>>>, whose *)
(* entries <<key, value>> are in the order Object.entries yields them.     *)
(* A key is a sequence of characters.                                      *)
(***************************************************************************)
Digits == <<"0", "1", "2", "3", "4", "5", "6", "7", "8", "9">>

IsDigit(c) == \E i \in DOMAIN Digits : Digits[i] = c

DigitVal(c) == (CHOOSE i \in DOMAIN Digits : Digits[i] = c) - 1

\* String(i) for an array index
RECURSIVE IndexKey(_)
IndexKey(i) ==
    IF i < Len(Digits) THEN <<Digits[i + 1]>>
    ELSE Append(IndexKey(i \div Len(Digits)), Digits[(i % Len(Digits)) + 1])

\* a canonical array index: JavaScript enumerates such keys first, ascending
IsIndexKey(k) ==
    /\ Len(k) > 0
    /\ \A i \in 1..Len(k) : IsDigit(k[i])
    /\ (Len(k) > 1 => k[1] # "0")

RECURSIVE KeyNum(_)
KeyNum(k) ==
    IF k = <<>> THEN 0
    ELSE Len(Digits) * KeyNum(SubSeq(k, 1, Len(k) - 1)) + DigitVal(k[Len(k)])

HasKey(entries, k) == \E i \in 1..Len(entries) : entries[i][1] = k

\* result[k] = v on an object given by its entries: an existing key keeps its
\* place, a new index key goes among the index keys, a new string key last
ObjSet(entries, k, v) ==
    IF HasKey(entries, k)
    THEN [i \in 1..Len(entries) |-> IF entries[i][1] = k THEN <<k, v>> ELSE entries[i]]
    ELSE IF IsIndexKey(k)
         THEN LET Before(e) == IsIndexKey(e[1]) /\ KeyNum(e[1]) < KeyNum(k)
                  NotBefore(e) == ~Before(e)
              IN  SelectSeq(entries, Before) \o <<(<<k, v>>)>> \o SelectSeq(entries, NotBefore)
         ELSE Append(entries, <<k, v>>)

\* Object.entries of a mapping, or of an array (its indices as keys)
Entries(value) ==
    IF value[1] = "list"
    THEN [i \in 1..Len(value[2]) |-> <<IndexKey(i - 1), value[2][i]>>]
    ELSE value[2]

\* typeof value === 'object' && value !== null
IsObject(value) == value[1] \in {"map", "list"}

StartsWith(key, c) == Len(key) > 0 /\ key[1] = c

(***************************************************************************)
(* yaml.load (js-yaml), as parseYamlContent uses it (index.ts:299), for    *)
(* block mappings and block sequences of plain scalars, indented by        *)
(* spaces.  A parse yields [ok, val, next]: whether it succeeded, the      *)
(* value, and the first line not consumed.                                 *)
(***************************************************************************)
NullValue == <<"null", "null">>

ParseFailure == [ok |-> FALSE, val |-> NullValue, next |-> 0]

\* the lines that are not blank, each with its indentation
YamlLines(text) ==
    LET lines == SelectSeq(SplitLines(text), LAMBDA l : Trim(l) # <<>>)
    IN  [i \in 1..Len(lines) |->
            [ind |-> Len(Indent(lines[i])), txt |-> TrimEnd(Drop(lines[i], Len(Indent(lines[i]))))]]

\* a ':' that ends a key: followed by a space or by the end of the line
IsKeyColon(txt, i) == txt[i] = ":" /\ (i = Len(txt) \/ txt[i + 1] = " ")

HasKeyColon(txt) == \E i \in 1..Len(txt) : IsKeyColon(txt, i)

KeyColon(txt) ==
    CHOOSE i \in 1..Len(txt) : IsKeyColon(txt, i) /\ \A j \in 1..(i - 1) : ~IsKeyColon(txt, j)

IsSeqItem(txt) == IsPrefix(<<"-">>, txt) /\ (Len(txt) = 1 \/ txt[2] = " ")

\* '@' is a reserved indicator: no plain scalar may start with it
ReservedIndicators == {"@"}

IsAllDigits(txt) == txt # <<>> /\ \A i \in 1..Len(txt) : IsDigit(txt[i])

\* the core schema's resolution of a plain scalar
PlainScalar(txt) ==
    IF IsAllDigits(txt) THEN <<"num", KeyNum(txt)>>
    ELSE IF txt = <<"t", "r", "u", "e">> THEN <<"bool", TRUE>>
    ELSE IF txt = <<"f", "a", "l", "s", "e">> THEN <<"bool", FALSE>>
    ELSE IF txt \in {<<"n", "u", "l", "l">>, <<"~">>} THEN NullValue
    ELSE <<"str", txt>>

RECURSIVE ParseBlock(_, _, _), ParseMapAt(_, _, _, _), ParseSeqAt(_, _, _, _)

ParseBlock(ls, i, ind) ==
    IF IsSeqItem(ls[i].txt) THEN ParseSeqAt(ls, i, ind, <<>>) ELSE ParseMapAt(ls, i, ind, <<>>)

ParseMapAt(ls, i, ind, acc) ==
    IF i > Len(ls) \/ ls[i].ind < ind THEN [ok |-> TRUE, val |-> <<"map", acc>>, next |-> i]
    ELSE IF ls[i].ind > ind \/ IsSeqItem(ls[i].txt) \/ ~HasKeyColon(ls[i].txt) THEN ParseFailure
    ELSE LET txt == ls[i].txt
             c == KeyColon(txt)
             key == TrimEnd(SubSeq(txt, 1, c - 1))
             rest == Trim(Drop(txt, c))
         IN  IF key = <<>> \/ key[1] \in ReservedIndicators \/ HasKey(acc, key) THEN ParseFailure
             ELSE IF rest # <<>>
                  THEN IF HasKeyColon(rest) \/ rest[1] \in ReservedIndicators THEN ParseFailure
                       ELSE ParseMapAt(ls, i + 1, ind, ObjSet(acc, key, PlainScalar(rest)))
                  ELSE IF i + 1 <= Len(ls) /\ ls[i + 1].ind > ind
                       THEN LET sub == ParseBlock(ls, i + 1, ls[i + 1].ind)
                            IN  IF sub.ok
                                THEN ParseMapAt(ls, sub.next, ind, ObjSet(acc, key, sub.val))
                                ELSE ParseFailure
                       ELSE ParseMapAt(ls, i + 1, ind, ObjSet(acc, key, NullValue))

ParseSeqAt(ls, i, ind, acc) ==
    IF i > Len(ls) \/ ls[i].ind < ind THEN [ok |-> TRUE, val |-> <<"list", acc>>, next |-> i]
    ELSE IF ls[i].ind > ind \/ ~IsSeqItem(ls[i].txt) THEN ParseFailure
    ELSE LET txt == ls[i].txt
             item == TrimStart(Tail(txt))
         IN  IF item = <<>>
             THEN IF i + 1 <= Len(ls) /\ ls[i + 1].ind > ind
                  THEN LET sub == ParseBlock(ls, i + 1, ls[i + 1].ind)
                       IN  IF sub.ok THEN ParseSeqAt(ls, sub.next, ind, Append(acc, sub.val))
                           ELSE ParseFailure
                  ELSE ParseSeqAt(ls, i + 1, ind, Append(acc, NullValue))
             ELSE IF HasKeyColon(item) \/ IsSeqItem(item)
                  \* a compact nested block: it starts on the item's own line
                  THEN LET at == ind + (Len(txt) - Len(item))
                           sub == ParseBlock([ls EXCEPT ![i] = [ind |-> at, txt |-> item]], i, at)
                       IN  IF sub.ok THEN ParseSeqAt(ls, sub.next, ind, Append(acc, sub.val))
                           ELSE ParseFailure
                  ELSE IF item[1] \in ReservedIndicators THEN ParseFailure
                       ELSE ParseSeqAt(ls, i + 1, ind, Append(acc, PlainScalar(item)))

\* yaml.load: [ok |-> FALSE] when it throws; a document that is one plain
\* scalar loads as a string, an empty one as undefined (here: null)
yamlLoad(text) ==
    LET ls == YamlLines(text)
    IN  IF Len(ls) = 0 THEN [ok |-> TRUE, val |-> NullValue, next |-> 1]
        ELSE IF ~IsSeqItem(ls[1].txt) /\ ~HasKeyColon(ls[1].txt)
             THEN IF Len(ls) = 1 /\ ls[1].txt[1] \notin ReservedIndicators
                  THEN [ok |-> TRUE, val |-> PlainScalar(ls[1].txt), next |-> 2]
                  ELSE ParseFailure
             ELSE LET r == ParseBlock(ls, 1, ls[1].ind)
                  IN  IF r.ok /\ r.next > Len(ls) THEN r ELSE ParseFailure

(***************************************************************************)
(* postprocessYaml, index.ts:279-294.                                      *)
(***************************************************************************)
\* key.replace(/^__at__@/, '@')
StripSentinel(key) ==
    IF IsPrefix(Sentinel \o <<"@">>, key) THEN Drop(key, Len(Sentinel)) ELSE key

RECURSIVE postprocessYaml(_), postprocessEntries(_, _)

postprocessEntries(entries, acc) ==
    IF entries = <<>> THEN acc
    ELSE postprocessEntries(Tail(entries),
                            ObjSet(acc, StripSentinel(Head(entries)[1]),
                                   postprocessYaml(Head(entries)[2])))

postprocessYaml(data) ==
    IF data[1] = "list"
    THEN <<"list", [i \in 1..Len(data[2]) |-> postprocessYaml(data[2][i])]>>
    ELSE IF data[1] = "map" THEN <<"map", postprocessEntries(data[2], <<>>)>>
    ELSE data

\* parseYamlContent giving an empty mapping where it should throw
parseYamlContentLenient(content) ==
    LET parsed == yamlLoad(preprocessYaml(content))
    IN  IF parsed.ok /\ IsObject(parsed.val)
        THEN [ok |-> TRUE, val |-> postprocessYaml(parsed.val)]
        ELSE [ok |-> TRUE, val |-> <<"map", <<>>>>]

\* parseYamlContent, index.ts:296-308: [ok |-> FALSE] when it throws
parseYamlContent(content) ==
    LET parsed == yamlLoad(preprocessYaml(content))
    IN  IF parsed.ok /\ IsObject(parsed.val)
        THEN [ok |-> TRUE, val |-> postprocessYaml(parsed.val)]
        ELSE [ok |-> FALSE, val |-> NullValue]

(***************************************************************************)
(* processYamlLd, index.ts:310-339.                                        *)
(***************************************************************************)
NewKeySwapping(key, preferDollarPrefix) ==
    IF preferDollarPrefix /\ StartsWith(key, "@") THEN <<"$">> \o Tail(key)
    ELSE IF preferDollarPrefix /\ StartsWith(key, "$") THEN <<"@">> \o Tail(key)
    ELSE key

\* NewKey putting the preferred sigil before a key that has none
NewKeyAddingSigil(key, preferDollarPrefix) ==
    IF StartsWith(key, "@") \/ StartsWith(key, "$")
    THEN (IF preferDollarPrefix /\ StartsWith(key, "@") THEN <<"$">> \o Tail(key) ELSE key)
    ELSE <<(IF preferDollarPrefix THEN "$" ELSE "@")>> \o key

\* NewKey writing the canonical sigil of the flag over either sigil
NewKeyCanonical(key, preferDollarPrefix) ==
    IF StartsWith(key, "@") \/ StartsWith(key, "$")
    THEN <<(IF preferDollarPrefix THEN "$" ELSE "@")>> \o Tail(key)
    ELSE key

\* lines 329-332
NewKey(key, preferDollarPrefix) ==
    IF preferDollarPrefix /\ StartsWith(key, "@") THEN <<"$">> \o Tail(key) ELSE key

RECURSIVE processObject(_, _), processValue(_, _), processEntries(_, _, _)

\* the loop of processObject (328-334), result being acc so far
processEntries(entries, acc, preferDollarPrefix) ==
    IF entries = <<>> THEN acc
    ELSE processEntries(Tail(entries),
                        ObjSet(acc, NewKey(Head(entries)[1], preferDollarPrefix),
                               processValue(Head(entries)[2], preferDollarPrefix)),
                        preferDollarPrefix)

processObject(obj, preferDollarPrefix) ==
    <<"map", processEntries(Entries(obj), <<>>, preferDollarPrefix)>>

processValue(value, preferDollarPrefix) ==
    IF value[1] = "list"
    THEN <<"list", [i \in 1..Len(value[2]) |->
                       IF IsObject(value[2][i])
                       THEN processObject(value[2][i], preferDollarPrefix)
                       ELSE value[2][i]]>>
    ELSE IF value[1] = "map" THEN processObject(value, preferDollarPrefix)
    ELSE value

processYamlLd(data, preferDollarPrefix) == processObject(data, preferDollarPrefix)

(***************************************************************************)
(* formatJsonString, index.ts:341-355.                                     *)
(***************************************************************************)
\* join of texts with a separator
RECURSIVE Join(_, _)
Join(texts, sep) ==
    IF Len(texts) = 0 THEN <<>>
    ELSE IF Len(texts) = 1 THEN texts[1]
    ELSE texts[1] \o sep \o Join(Tail(texts), sep)

\* the characters of a JSON string literal
RECURSIVE JsonEscape(_)
JsonEscape(txt) ==
    IF txt = <<>> THEN <<>>
    ELSE (CASE Head(txt) = "\"" -> <<"\\", "\"">>
            [] Head(txt) = "\\" -> <<"\\", "\\">>
            [] Head(txt) = "\n" -> <<"\\", "n">>
            [] Head(txt) = "\t" -> <<"\\", "t">>
            [] Head(txt) = "\r" -> <<"\\", "r">>
            [] OTHER -> <<Head(txt)>>) \o JsonEscape(Tail(txt))

\* JSON.stringify of a scalar
JsonScalar(value) ==
    CASE value[1] = "str" -> <<"\"">> \o JsonEscape(value[2]) \o <<"\"">>
      [] value[1] = "num" -> IndexKey(value[2])
      [] value[1] = "bool" -> IF value[2] THEN <<"t", "r", "u", "e">>
                              ELSE <<"f", "a", "l", "s", "e">>
      [] OTHER -> <<"n", "u", "l", "l">>

RECURSIVE formatValue(_)
formatValue(value) ==
    IF value[1] = "list"
    THEN <<"[">> \o Join([i \in 1..Len(value[2]) |-> formatValue(value[2][i])], <<",", " ">>)
             \o <<"]">>
    ELSE IF value[1] = "map"
         THEN <<"{", "\n">>
                  \o Join([i \in 1..Len(value[2]) |->
                              <<" ", " ", "\"">> \o value[2][i][1] \o <<"\"", ":", " ">>
                                  \o formatValue(value[2][i][2])], <<",", "\n">>)
                  \o <<"\n", "}">>
         ELSE JsonScalar(value)

formatJsonString(obj) ==
    <<"{", "\n">>
        \o Join([i \in 1..Len(obj[2]) |->
                    <<"\"">> \o obj[2][i][1] \o <<"\"", ":", " ">> \o formatValue(obj[2][i][2])],
                <<",", "\n">>)
        \o <<"\n", "}">>

(***************************************************************************)
(* The normalizer applied to bounded metadata.                             *)
(***************************************************************************)
Keys == {<<"@", "t">>, <<"$", "t">>, <<"n">>, <<"t", "y", "p", "e">>}

Scalars == {<<"num", 1>>, <<"str", <<"@", "t">>>>}

ListsOver(V) ==
    {<<"list", <<>>>>} \cup {<<"list", <<x>>>> : x \in V}
        \cup {<<"list", <<x, s>>>> : x \in V, s \in Scalars}

\* mappings of one entry, and of the two sigil spellings of one attribute
MapsOver(V) ==
    {<<"map", <<>>>>} \cup {<<"map", <<(<<k, x>>)>>>> : k \in Keys, x \in V}
        \cup {<<"map", <<(<<(<<"@", "t">>), x>>), (<<(<<"$", "t">>), s>>)>>>> : x \in V, s \in Scalars}
        \cup {<<"map", <<(<<(<<"$", "t">>), s>>), (<<(<<"@", "t">>), x>>)>>>> : x \in V, s \in Scalars}

RECURSIVE Values(_)
Values(d) ==
    IF d = 0 THEN Scalars
    ELSE LET V == Values(d - 1) IN V \cup ListsOver(V) \cup MapsOver(V)

Metadata == MapsOver(Values(MaxDepth))

EmptyObject == <<"map", <<>>>>

NormAtRest ==
    /\ metaIn = EmptyObject
    /\ prefer = FALSE
    /\ once = EmptyObject
    /\ twice = EmptyObject
    /\ passes = 0

NormalizeFirst ==
    /\ passes = 0
    /\ once' = processYamlLd(metaIn, prefer)
    /\ passes' = 1
    /\ UNCHANGED <<metaIn, prefer, twice>>

NormalizeAgain ==
    /\ passes = 1
    /\ twice' = processYamlLd(once, prefer)
    /\ passes' = 2
    /\ UNCHANGED <<metaIn, prefer, once>>

(***************************************************************************)
(* The environment of the resolver: addresses, what the remote may answer. *)
(***************************************************************************)
Addrs == {"https://h/a", "https://h/b"}

Responses == {<<200, "OK">>, <<404, "Not Found">>, <<500, "Internal Server Error">>}

Chunks == {"x"}

TransportErrors == {"ECONNRESET"}

Reqs == 1..MaxReq

\* the plugin a request is loaded through: every request through one of its
\* own, constructed by a call of mdxld(options) with the same options
Instance(r) == r

NoResult == [kind |-> "none", contents |-> "", text |-> ""]

ContentsResult(c) == [kind |-> "contents", contents |-> c, text |-> ""]

ErrorResult(t) == [kind |-> "errors", contents |-> "", text |-> t]

IdleReq ==
    [st |-> "idle", addr |-> "", issuedAt |-> 0, prior |-> {}, chunks |-> <<>>,
     cause |-> <<"none">>, doneAt |-> 0, late |-> 0, res |-> NoResult]

(***************************************************************************)
(* http-import onLoad, index.ts:136-166.                                   *)
(***************************************************************************)
CacheTTL == Nullish(options.httpCacheTTL, CACHE_TTL)

HttpTimeout == Nullish(options.httpTimeout, DEFAULT_HTTP_TIMEOUT)

CacheFreshIgnoringTTL(cache, a, t, ttl) == MapHas(cache, a)

\* the test with <= for <
CacheFreshInclusive(cache, a, t, ttl) == MapHas(cache, a) /\ t - cache[a].timestamp <= ttl

\* cached && Date.now() - cached.timestamp < cacheTTL
CacheFresh(cache, a, t, ttl) == MapHas(cache, a) /\ t - cache[a].timestamp < ttl

InFlight(r) == imp[r].st \in {"pending", "body"}

Done(r) == imp[r].st = "done"

\* the addresses being interchangeable, the first request asks for the first
FirstAddr(r, a) == r = 1 => a = "https://h/a"

\* ImportLoad stamping the entry anew on a hit
ImportLoadRefreshing(r, a) ==
    /\ imp[r].st = "idle"
    /\ \A q \in Reqs : q < r => imp[q].st # "idle"
    /\ FirstAddr(r, a)
    /\ LET base == [imp[r] EXCEPT !.addr = a, !.issuedAt = now,
                                   !.prior = {q \in Reqs : Done(q)}]
       IN  IF CacheFresh(httpCache, a, now, CacheTTL)
           THEN /\ importFs' = MapSet(importFs, a, httpCache[a].content)
                /\ httpCache' = [httpCache EXCEPT ![a].timestamp = now]
                /\ imp' = [imp EXCEPT ![r] =
                              [base EXCEPT !.st = "done", !.cause = <<"hit">>,
                                           !.res = ContentsResult(httpCache[a].content)]]
                /\ UNCHANGED netCalls
           ELSE /\ imp' = [imp EXCEPT ![r] =
                              [base EXCEPT !.st = "pending"]]
                /\ netCalls' = [netCalls EXCEPT ![a] = @ + 1]
                /\ UNCHANGED <<importFs, httpCache>>
    /\ UNCHANGED <<now, options>>

\* the handler up to its first await: the cache check, then either the hit
\* branch (141-145) or the call of fetchWithTimeout (147, 27)
ImportLoad(r, a) ==
    /\ imp[r].st = "idle"
    /\ \A q \in Reqs : q < r => imp[q].st # "idle"
    /\ FirstAddr(r, a)
    /\ LET base == [imp[r] EXCEPT !.addr = a, !.issuedAt = now,
                                   !.prior = {q \in Reqs : Done(q)}]
       IN  IF CacheFresh(httpCache, a, now, CacheTTL)
           THEN /\ importFs' = MapSet(importFs, a, httpCache[a].content)
                /\ imp' = [imp EXCEPT ![r] =
                              [base EXCEPT !.st = "done", !.cause = <<"hit">>,
                                           !.res = ContentsResult(httpCache[a].content)]]
                /\ UNCHANGED netCalls
           ELSE /\ imp' = [imp EXCEPT ![r] =
                              [base EXCEPT !.st = "pending"]]
                /\ netCalls' = [netCalls EXCEPT ![a] = @ + 1]
                /\ UNCHANGED importFs
    /\ UNCHANGED <<now, options, httpCache>>

ImportCatchCaching(r, cause, rej) ==
    /\ imp' = [imp EXCEPT ![r].st = "done", ![r].cause = cause,
                          ![r].res = ErrorResult("HTTP 404: Not Found")]
    /\ httpCache' = MapSet(httpCache, imp[r].addr, [content |-> rej, timestamp |-> now])
    /\ UNCHANGED <<now, options, importFs, netCalls>>

\* ImportCatch dropping the entry of the address it failed to fetch
ImportCatchClearing(r, cause, rej) ==
    /\ imp' = [imp EXCEPT ![r].st = "done", ![r].cause = cause,
                          ![r].res = ErrorResult("HTTP 404: Not Found")]
    /\ httpCache' = [a \in DOMAIN httpCache \ {imp[r].addr} |-> httpCache[a]]
    /\ UNCHANGED <<now, options, importFs, netCalls>>

\* ImportCatch calling the network once more instead of returning
ImportCatchRetrying(r, cause, rej) ==
    /\ imp' = [imp EXCEPT ![r].st = "pending"]
    /\ netCalls' = [netCalls EXCEPT ![imp[r].addr] = @ + 1]
    /\ UNCHANGED <<now, options, httpCache, importFs>>

\* fetchWithTimeout rejected with message rej; the handler's catch (155-165)
\* discards the rejection and answers with a fixed text
ImportCatch(r, cause, rej) ==
    /\ imp' = [imp EXCEPT ![r].st = "done", ![r].cause = cause,
                          ![r].res = ErrorResult("HTTP 404: Not Found")]
    /\ UNCHANGED <<now, options, httpCache, importFs, netCalls>>

\* ImportResolved leaving an entry that is already there
ImportResolvedFirstWins(r, content) ==
    /\ httpCache' = MapSetKeepFirst(httpCache, imp[r].addr,
                                    [content |-> content, timestamp |-> now])
    /\ importFs' = MapSet(importFs, imp[r].addr, content)
    /\ imp' = [imp EXCEPT ![r].st = "done", ![r].cause = <<"ok">>, ![r].doneAt = now,
                          ![r].res = ContentsResult(content)]
    /\ UNCHANGED <<now, options, netCalls>>

\* the promise resolved with content; the handler continues at 148-154
ImportResolved(r, content) ==
    /\ httpCache' = MapSet(httpCache, imp[r].addr, [content |-> content, timestamp |-> now])
    /\ importFs' = MapSet(importFs, imp[r].addr, content)
    /\ imp' = [imp EXCEPT ![r].st = "done", ![r].cause = <<"ok">>, ![r].doneAt = now,
                          ![r].res = ContentsResult(content)]
    /\ UNCHANGED <<now, options, netCalls>>

\* what the first generation's 'virtual' handler answers for a key (107-126);
\* !contents holds for a missing key and for the empty string; no key of the
\* model ends with '.mdx', so the MDX plugin is not asked
ImportVirtualResult(store, key) ==
    IF ~MapHas(store, key) \/ store[key] = ""
    THEN ErrorResult("Virtual file not found: " \o key)
    ELSE ContentsResult(store[key])

(***************************************************************************)
(* fetchWithTimeout, index.ts:25-51: the events of one https.get.          *)
(***************************************************************************)
\* the response callback (27-37)
Response(r, code, msg) ==
    /\ imp[r].st = "pending"
    /\ IF code = 404
       THEN ImportCatch(r, <<"status", code, msg>>, "HTTP 404: Not Found")
       ELSE IF code # 200
            THEN ImportCatch(r, <<"status", code, msg>>, HttpStatusText(code, msg))
            ELSE /\ imp' = [imp EXCEPT ![r].st = "body"]
                 /\ UNCHANGED <<now, options, httpCache, importFs, netCalls>>

\* response 'data' (39)
Data(r, chunk) ==
    /\ imp[r].st = "body"
    /\ Len(imp[r].chunks) < MaxChunks
    /\ imp' = [imp EXCEPT ![r].chunks = Append(@, chunk)]
    /\ UNCHANGED <<now, options, httpCache, importFs, netCalls>>

\* response 'end' (40)
End(r) ==
    /\ imp[r].st = "body"
    /\ ImportResolved(r, Concat(imp[r].chunks))

\* a response 'error' that caches what had arrived of the body
ResponseErrorCaching(r, msg) ==
    /\ imp[r].st = "body"
    /\ imp' = [imp EXCEPT ![r].st = "done", ![r].cause = <<"transport", msg>>,
                          ![r].res = ErrorResult("HTTP 404: Not Found")]
    /\ httpCache' = MapSet(httpCache, imp[r].addr,
                           [content |-> Concat(imp[r].chunks), timestamp |-> now])
    /\ UNCHANGED <<now, options, importFs, netCalls>>

\* response 'error' (41)
ResponseError(r, msg) ==
    /\ imp[r].st = "body"
    /\ ImportCatch(r, <<"transport", msg>>, msg)

\* request 'error' (49)
RequestError(r, msg) ==
    /\ imp[r].st = "pending"
    /\ ImportCatch(r, <<"transport", msg>>, msg)

\* the socket's inactivity timer fires (44-47); how long the socket has been
\* idle is the environment's to say, the clock of the model being coarse
Timeout(r) ==
    /\ InFlight(r)
    /\ ImportCatch(r, <<"timeout">>, TimeoutText(HttpTimeout))

LateEvents == {"response", "data", "end", "error", "timeout"}

\* a late 'end' settling the promise once more, the handler resuming at 148
LateEventSettling(r, e) ==
    /\ Done(r) /\ imp[r].cause # <<"hit">>
    /\ imp[r].late < MaxLate
    /\ IF e = "end"
       THEN /\ httpCache' = MapSet(httpCache, imp[r].addr,
                                  [content |-> Concat(imp[r].chunks), timestamp |-> now])
            /\ importFs' = MapSet(importFs, imp[r].addr, Concat(imp[r].chunks))
            /\ imp' = [imp EXCEPT ![r].late = @ + 1, ![r].cause = <<"ok">>,
                                  ![r].res = ContentsResult(Concat(imp[r].chunks))]
       ELSE /\ imp' = [imp EXCEPT ![r].late = @ + 1]
            /\ UNCHANGED <<httpCache, importFs>>
    /\ UNCHANGED <<now, options, netCalls>>

\* a callback of fetchWithTimeout (27-49) running after the promise has
\* settled and the handler has returned: its resolve or reject does nothing,
\* a settled promise keeping its outcome; 'data' still pushes its chunk (39),
\* and comes only before 'end' and only where the listener was added (no
\* listener is added after a rejection for the status, 28-36)
LateEvent(r, e) ==
    /\ Done(r) /\ imp[r].cause # <<"hit">>
    /\ imp[r].late < MaxLate
    /\ e = "data" => (imp[r].cause[1] \notin {"ok", "status"} /\ Len(imp[r].chunks) < MaxChunks)
    /\ imp' = [imp EXCEPT ![r].late = @ + 1,
                          ![r].chunks = IF e = "data" THEN Append(@, "x") ELSE @]
    /\ UNCHANGED <<now, options, httpCache, importFs, netCalls>>

\* the clock advances; it starts with the first request (the behaviours
\* before it differ only by a shift of every time)
Tick ==
    /\ now < MaxTime
    /\ imp[1].st # "idle"
    /\ now' = now + 1
    /\ UNCHANGED <<options, httpCache, importFs, imp, netCalls>>

ImportAtRest ==
    /\ now = 0
    /\ httpCache = EmptyMap
    /\ importFs = EmptyMap
    /\ imp = [r \in Reqs |-> IdleReq]
    /\ netCalls = [a \in Addrs |-> 0]

(***************************************************************************)
(* The bridge, index.ts:357-462: the 'file', 'virtual' and 'http-url'      *)
(* handlers over the Store.  A result (MDXOnLoadResult) lists in has the   *)
(* fields it carries.                                                      *)
(***************************************************************************)
Paths == {"/a.mdx", "/b.mdx"}

\* '# B'
DocPlain ==
    <<"#", " ", "B">>

\* '---\n\n---\nB'
DocEmptyBlock ==
    <<"-", "-", "-", "\n", "\n", "-", "-", "-", "\n", "B">>

\* '---\n@t: A\nn: 1\n---\n\nB\n'
DocAtKey ==
    <<"-", "-", "-", "\n", "@", "t", ":", " ", "A", "\n", "n", ":", " ", "1", "\n", "-", "-", "-", "\n", "\n", "B", "\n">>

\* '---\nl:\n  - @t: A\n$t: B\n---\nB'
DocNested ==
    <<"-", "-", "-", "\n", "l", ":", "\n", " ", " ", "-", " ", "@", "t", ":", " ", "A", "\n", "$", "t", ":", " ", "B", "\n", "-", "-", "-", "\n", "B">>

\* '---\nn: 1\nx\n---\nB'
DocInvalid ==
    <<"-", "-", "-", "\n", "n", ":", " ", "1", "\n", "x", "\n", "-", "-", "-", "\n", "B">>

\* '---\nhello\n---\nB'
DocScalar ==
    <<"-", "-", "-", "\n", "h", "e", "l", "l", "o", "\n", "-", "-", "-", "\n", "B">>

\* 'B\n---\nn: 1\n---'
DocLateMarker ==
    <<"B", "\n", "-", "-", "-", "\n", "n", ":", " ", "1", "\n", "-", "-", "-">>

\* '---\nn: 1\n----\nB'
DocLongCloser ==
    <<"-", "-", "-", "\n", "n", ":", " ", "1", "\n", "-", "-", "-", "-", "\n", "B">>

\* '---\n- a\n---\nB'
DocTopList ==
    <<"-", "-", "-", "\n", "-", " ", "a", "\n", "-", "-", "-", "\n", "B">>

\* '---\nn:\n  @a-b: 1\n---\nB'
DocHyphenKey ==
    <<"-", "-", "-", "\n", "n", ":", "\n", " ", " ", "@", "a", "-", "b", ":", " ", "1", "\n",
      "-", "-", "-", "\n", "B">>

Docs ==
    {DocPlain, DocEmptyBlock, DocAtKey, DocNested, DocInvalid, DocScalar, DocLateMarker,
     DocLongCloser, DocTopList, DocHyphenKey}

Bodies == {<<>>, <<"x">>}

\* what a rejected fetch or body read throws: an Error with a message, or not an Error
Thrown == {<<"Error", "ECONNRESET">>, <<"other", "">>}

\* a key that forgets the path
VirtualPathFixed(path) == "virtual:"

VirtualPath(path) == "virtual:" \o path

VirtualKeys == {VirtualPath(p) : p \in Paths} \cup Addrs \cup {"virtual:/never.mdx"}

NoFields ==
    [has |-> {}, contents |-> <<>>, loader |-> "", watchFiles |-> <<>>, path |-> "",
     namespace |-> "", errors |-> <<>>]

\* { contents, loader: 'mdx' }
Passthrough(contents) ==
    [NoFields EXCEPT !.has = {"contents", "loader"}, !.contents = contents, !.loader = "mdx"]

\* { contents, loader: 'mdx', watchFiles: [path] }
VirtualFile(contents, path) ==
    [NoFields EXCEPT !.has = {"contents", "loader", "watchFiles"}, !.contents = contents,
                     !.loader = "mdx", !.watchFiles = <<path>>]

\* { path: virtualPath, namespace: 'virtual', watchFiles: [path] }
Handoff(virtualPath, path) ==
    [NoFields EXCEPT !.has = {"path", "namespace", "watchFiles"}, !.path = virtualPath,
                     !.namespace = "virtual", !.watchFiles = <<path>>]

\* { errors: [{ text }], loader: 'mdx' }
Errors(text) ==
    [NoFields EXCEPT !.has = {"errors", "loader"}, !.errors = <<text>>, !.loader = "mdx"]

\* a load request; doc and cached are history: the contents readFile gave it,
\* and whether an 'http-url' load was answered from the Store
IdleLoad ==
    [kind |-> "none", st |-> "idle", path |-> "", doc |-> <<>>, cached |-> FALSE,
     res |-> NoFields]

\* history of the latest virtual load: after, the requests that had returned by
\* then; put, the artifact last put under its key by then, if any
NoVirtualLoad == [key |-> "", res |-> NoFields, after |-> {}, put |-> {}]

PreferDollarPrefix == Nullish(options.preferDollarPrefix, FALSE)

BridgeDone(r) == br[r].st = "done"

Return(r, res) == br' = [br EXCEPT ![r].st = "done", ![r].res = res]

ReturnRead(r, contents, res) ==
    br' = [br EXCEPT ![r].st = "done", ![r].doc = contents, ![r].res = res]

\* a put that writes the artifact under a second key as well
StorePutAlso(key, artifact) ==
    /\ virtualFs' = MapSet(MapSet(virtualFs, key, artifact), "virtual:/never.mdx", artifact)
    /\ lastPut' = [k \in DOMAIN lastPut \cup {key} |->
                        IF k = key THEN artifact ELSE lastPut[k]]

\* a Store of one slot: the put evicts every other key
StorePutEvicting(key, artifact) ==
    /\ virtualFs' = [k \in {key} |-> artifact]
    /\ lastPut' = [k \in DOMAIN lastPut \cup {key} |->
                        IF k = key THEN artifact ELSE lastPut[k]]

\* virtualFs.set(key, artifact), with its history
StorePut(key, artifact) ==
    /\ virtualFs' = MapSet(virtualFs, key, artifact)
    /\ lastPut' = [k \in DOMAIN lastPut \cup {key} |->
                        IF k = key THEN artifact ELSE lastPut[k]]

\* 'file' onLoad up to await readFile (371-373)
FileLoad(r, path) ==
    /\ br[r].st = "idle"
    /\ \A q \in Reqs : q < r => br[q].st # "idle"
    /\ br' = [br EXCEPT ![r] = [IdleLoad EXCEPT !.kind = "file", !.st = "reading", !.path = path]]
    /\ UNCHANGED <<virtualFs, vlast, lastPut, options>>

\* FileRead handing the key back without the Store written
FileReadNoPut(r, contents) ==
    /\ br[r].kind = "file" /\ br[r].st = "reading"
    /\ LET matches == FrontmatterMatch(contents)
       IN  IF ~matches.found \/ Trim(matches.group) = <<>>
           THEN ReturnRead(r, contents, Passthrough(contents))
           ELSE IF parseYamlContent(matches.group).ok
                THEN ReturnRead(r, contents, Handoff(VirtualPath(br[r].path), br[r].path))
                ELSE ReturnRead(r, contents, Errors("Invalid YAML syntax"))
    /\ UNCHANGED <<virtualFs, lastPut, vlast, options>>

\* readFile resolved with contents (374-409)
FileRead(r, contents) ==
    /\ br[r].kind = "file" /\ br[r].st = "reading"
    /\ LET virtualPath == VirtualPath(br[r].path)
           matches == FrontmatterMatch(contents)
       IN  IF ~matches.found \/ Trim(matches.group) = <<>>
           THEN /\ ReturnRead(r, contents, Passthrough(contents))
                /\ UNCHANGED <<virtualFs, lastPut>>
           ELSE LET frontmatter == parseYamlContent(matches.group)
                IN  IF frontmatter.ok
                    THEN LET processedYaml == processYamlLd(frontmatter.val, PreferDollarPrefix)
                             processedContent == formatJsonString(processedYaml)
                         IN  /\ StorePut(virtualPath, VirtualFile(processedContent, br[r].path))
                             /\ ReturnRead(r, contents, Handoff(virtualPath, br[r].path))
                    ELSE /\ ReturnRead(r, contents, Errors("Invalid YAML syntax"))
                         /\ UNCHANGED <<virtualFs, lastPut>>
    /\ UNCHANGED <<vlast, options>>

\* the callback's promise rejects: the handler raises instead of returning
Raise(r) == br' = [br EXCEPT ![r].st = "raised"]

Raised(r) == br[r].st = "raised"

\* FileReadFailed without the outer catch
FileReadRaising(r) ==
    /\ br[r].kind = "file" /\ br[r].st = "reading"
    /\ Raise(r)
    /\ UNCHANGED <<virtualFs, vlast, lastPut, options>>

\* readFile rejected (410-416)
FileReadFailed(r) ==
    /\ br[r].kind = "file" /\ br[r].st = "reading"
    /\ Return(r, Errors("Failed to read file"))
    /\ UNCHANGED <<virtualFs, vlast, lastPut, options>>

\* VirtualResult answering a miss with empty contents
VirtualResultEmpty(store, key) ==
    IF MapHas(store, key) THEN store[key]
    ELSE Passthrough(<<>>)

\* what the 'virtual' handler answers for a key (420-427)
VirtualResult(store, key) ==
    IF MapHas(store, key) THEN store[key]
    ELSE Errors("Virtual file not found: " \o key)

\* 'virtual' onLoad (419-428)
VirtualLoad(key) ==
    /\ vlast' = [key |-> key, res |-> VirtualResult(virtualFs, key),
                 after |-> {q \in Reqs : BridgeDone(q)},
                 put |-> IF key \in DOMAIN lastPut THEN {lastPut[key]} ELSE {}]
    /\ UNCHANGED <<virtualFs, br, lastPut, options>>

\* 'http-url' onLoad up to await fetch (430-437)
UrlLoad(r, addr) ==
    /\ br[r].st = "idle"
    /\ \A q \in Reqs : q < r => br[q].st # "idle"
    /\ IF MapHas(virtualFs, addr)
       THEN br' = [br EXCEPT ![r] = [IdleLoad EXCEPT !.kind = "url", !.st = "done",
                                                     !.path = addr, !.cached = TRUE,
                                                     !.res = virtualFs[addr]]]
       ELSE br' = [br EXCEPT ![r] = [IdleLoad EXCEPT !.kind = "url", !.st = "fetching",
                                                     !.path = addr]]
    /\ UNCHANGED <<virtualFs, vlast, lastPut, options>>

\* response.ok
StatusOk(status) == status >= 200 /\ status <= 299

\* fetch resolved with a response (438-445)
UrlResponse(r, status, statusText) ==
    /\ br[r].kind = "url" /\ br[r].st = "fetching"
    /\ IF ~StatusOk(status)
       THEN Return(r, Errors(HttpStatusText(status, statusText)))
       ELSE br' = [br EXCEPT ![r].st = "text"]
    /\ UNCHANGED <<virtualFs, vlast, lastPut, options>>

\* response.text() resolved (445-452)
UrlBody(r, contents) ==
    /\ br[r].kind = "url" /\ br[r].st = "text"
    /\ StorePut(br[r].path, VirtualFile(contents, br[r].path))
    /\ Return(r, VirtualFile(contents, br[r].path))
    /\ UNCHANGED <<vlast, options>>

\* fetch or response.text() rejected (453-458)
UrlFailed(r, thrown) ==
    /\ br[r].kind = "url" /\ br[r].st \in {"fetching", "text"}
    /\ Return(r, Errors(IF thrown[1] = "Error" THEN thrown[2] ELSE "Failed to fetch"))
    /\ UNCHANGED <<virtualFs, vlast, lastPut, options>>

BridgeAtRest ==
    /\ virtualFs = EmptyMap
    /\ br = [r \in Reqs |-> IdleLoad]
    /\ vlast = NoVirtualLoad
    /\ lastPut = EmptyMap

(***************************************************************************)
(* onResolve, index.ts:130-133 and 366-369: esbuild runs the callback for   *)
(* the identifiers its filter /^https?:\/\// matches, and resolves the      *)
(* others itself.  An identifier is a sequence of characters.              *)
(***************************************************************************)
Prefixes == {<<>>, <<"x">>, <<"/">>}

Schemes ==
    {<<"h", "t", "t", "p">>, <<"h", "t", "t", "p", "s">>, <<"h", "t", "t", "p", "s", "s">>, <<"h", "t", "p">>, <<"H", "T", "T", "P">>, <<"f", "t", "p">>}

Separators == {<<":", "/", "/">>, <<":", "/">>, <<"/", "/">>, <<":">>}

Rests == {<<>>, <<"h", "/", "a">>}

Idents ==
    {pre \o sch \o sep \o rest :
        pre \in Prefixes, sch \in Schemes, sep \in Separators, rest \in Rests}

\* the filter found somewhere in the identifier, its anchor dropped
HttpFilterAnywhere(s) ==
    \E p \in 1..Len(s) :
        /\ IsPrefix(<<"h", "t", "t", "p">>, Drop(s, p - 1))
        /\ \E k \in {0, 1} :
              /\ k = 1 => (Len(s) >= p + 4 /\ s[p + 4] = "s")
              /\ IsPrefix(<<":", "/", "/">>, Drop(s, p + 3 + k))

\* /^https?:\/\//.test(s): 'http' at position 0, an optional 's', then '://'
HttpFilter(s) ==
    /\ IsPrefix(<<"h", "t", "t", "p">>, s)
    /\ \E k \in {0, 1} :
          /\ k = 1 => (Len(s) >= 5 /\ s[5] = "s")
          /\ IsPrefix(<<":", "/", "/">>, Drop(s, 4 + k))

\* no resolution asked yet
Unresolved == [by |-> "none", path |-> <<>>, namespace |-> ""]

\* the callback did not run: esbuild resolves the identifier itself
Skipped(by) == [by |-> by, path |-> <<>>, namespace |-> ""]

\* onResolve of the first generation (130-133)
ResolveImport ==
    /\ resolved' = IF HttpFilter(ident)
                   THEN [by |-> "import", path |-> ident, namespace |-> "http-import"]
                   ELSE Skipped("import")
    /\ UNCHANGED ident

\* onResolve of the second generation (366-369)
ResolveUrl ==
    /\ resolved' = IF HttpFilter(ident)
                   THEN [by |-> "url", path |-> ident, namespace |-> "http-url"]
                   ELSE Skipped("url")
    /\ UNCHANGED ident

ResolveAtRest ==
    /\ ident = <<>>
    /\ resolved = Unresolved

(***************************************************************************)
(* The specifications: the resolver (generation one of index.ts), the      *)
(* bridge (generation two) and the normalizer alone.                       *)
(***************************************************************************)
\* mdxld() called with no options
NoOptions == [httpCacheTTL |-> {}, httpTimeout |-> {}, preferDollarPrefix |-> {}]

InitImport ==
    /\ options \in [httpCacheTTL : {{}, {0}, {1}}, httpTimeout : {{}},
                     preferDollarPrefix : {{}}]
    /\ ImportAtRest /\ NormAtRest /\ BridgeAtRest /\ ResolveAtRest

NextImport ==
    \/ \E r \in Reqs, a \in Addrs :
           ImportLoad(r, a) /\ UNCHANGED <<normVars, bridgeVars, resolveVars>>
    \/ \E r \in Reqs, resp \in Responses :
           Response(r, resp[1], resp[2]) /\ UNCHANGED <<normVars, bridgeVars, resolveVars>>
    \/ \E r \in Reqs, c \in Chunks :
           Data(r, c) /\ UNCHANGED <<normVars, bridgeVars, resolveVars>>
    \/ \E r \in Reqs :
           End(r) /\ UNCHANGED <<normVars, bridgeVars, resolveVars>>
    \/ \E r \in Reqs, m \in TransportErrors :
           ResponseError(r, m) /\ UNCHANGED <<normVars, bridgeVars, resolveVars>>
    \/ \E r \in Reqs, m \in TransportErrors :
           RequestError(r, m) /\ UNCHANGED <<normVars, bridgeVars, resolveVars>>
    \/ \E r \in Reqs :
           Timeout(r) /\ UNCHANGED <<normVars, bridgeVars, resolveVars>>
    \/ \E r \in Reqs, e \in LateEvents :
           LateEvent(r, e) /\ UNCHANGED <<normVars, bridgeVars, resolveVars>>
    \/ Tick /\ UNCHANGED <<normVars, bridgeVars, resolveVars>>

SpecImport == InitImport /\ [][NextImport]_vars

InitBridge ==
    /\ options \in [httpCacheTTL : {{}}, httpTimeout : {{}},
                     preferDollarPrefix : {{}, {TRUE}, {FALSE}}]
    /\ ImportAtRest /\ NormAtRest /\ BridgeAtRest /\ ResolveAtRest

NextBridge ==
    \/ \E r \in Reqs, p \in Paths :
           FileLoad(r, p) /\ UNCHANGED <<importState, normVars, resolveVars>>
    \/ \E r \in Reqs, d \in Docs :
           FileRead(r, d) /\ UNCHANGED <<importState, normVars, resolveVars>>
    \/ \E r \in Reqs :
           FileReadFailed(r) /\ UNCHANGED <<importState, normVars, resolveVars>>
    \/ \E k \in VirtualKeys :
           VirtualLoad(k) /\ UNCHANGED <<importState, normVars, resolveVars>>
    \/ \E r \in Reqs, a \in Addrs :
           UrlLoad(r, a) /\ UNCHANGED <<importState, normVars, resolveVars>>
    \/ \E r \in Reqs, resp \in Responses :
           UrlResponse(r, resp[1], resp[2]) /\ UNCHANGED <<importState, normVars, resolveVars>>
    \/ \E r \in Reqs, b \in Bodies :
           UrlBody(r, b) /\ UNCHANGED <<importState, normVars, resolveVars>>
    \/ \E r \in Reqs, t \in Thrown :
           UrlFailed(r, t) /\ UNCHANGED <<importState, normVars, resolveVars>>

SpecBridge == InitBridge /\ [][NextBridge]_vars

\* readFile settles
ReadEnds(r) ==
    /\ (\E d \in Docs : FileRead(r, d)) \/ FileReadFailed(r)
    /\ UNCHANGED <<importState, normVars, resolveVars>>

\* response.text() settles
BodyEnds(r) ==
    /\ br[r].st = "text"
    /\ (\E b \in Bodies : UrlBody(r, b)) \/ (\E t \in Thrown : UrlFailed(r, t))
    /\ UNCHANGED <<importState, normVars, resolveVars>>

\* The bridge with what its scheduling gives: a file read ends (with contents
\* or in failure), a body being read ends; nothing in the handler makes a
\* fetch end, and the remote need not answer.
LiveBridge ==
    /\ SpecBridge
    /\ \A r \in Reqs : WF_vars(ReadEnds(r)) /\ WF_vars(BodyEnds(r))

InitNorm ==
    /\ metaIn \in Metadata
    /\ prefer \in BOOLEAN
    /\ once = EmptyObject
    /\ twice = EmptyObject
    /\ passes = 0
    /\ options = NoOptions
    /\ ImportAtRest /\ BridgeAtRest /\ ResolveAtRest

NextNorm ==
    \/ NormalizeFirst /\ UNCHANGED <<importVars, bridgeVars, resolveVars>>
    \/ NormalizeAgain /\ UNCHANGED <<importVars, bridgeVars, resolveVars>>

SpecNorm == InitNorm /\ [][NextNorm]_vars

\* a build runs one generation of the plugin: the first (http-import) or the
\* second (file, virtual, http-url); the first step of a behaviour chooses
InitEither ==
    /\ options \in [httpCacheTTL : {{}, {0}, {1}}, httpTimeout : {{}},
                     preferDollarPrefix : {{}}]
                 \cup [httpCacheTTL : {{}}, httpTimeout : {{}},
                       preferDollarPrefix : {{}, {TRUE}, {FALSE}}]
    /\ ImportAtRest /\ NormAtRest /\ BridgeAtRest /\ ResolveAtRest

NextEither ==
    \/ BridgeAtRest /\ NextImport
    \/ ImportAtRest /\ NextBridge

SpecEither == InitEither /\ [][NextEither]_vars

InitResolve ==
    /\ ident \in Idents
    /\ resolved = Unresolved
    /\ options = NoOptions
    /\ ImportAtRest /\ NormAtRest /\ BridgeAtRest

NextResolve ==
    \/ ResolveImport /\ UNCHANGED <<importVars, normVars, bridgeVars>>
    \/ ResolveUrl /\ UNCHANGED <<importVars, normVars, bridgeVars>>

SpecResolve == InitResolve /\ [][NextResolve]_vars

(***************************************************************************)
(* Claims about the remote resolver (http-import).                         *)
(***************************************************************************)
Failed(r) == Done(r) /\ imp[r].res.kind = "errors"

Fetched(r) == Done(r) /\ imp[r].cause = <<"ok">>

\* r2 was issued after r1 had returned its fetched content, for the same
\* address, and no other request has asked for that address
TwoRequests(r1, r2) ==
    /\ r1 # r2
    /\ Fetched(r1)
    /\ imp[r2].st # "idle"
    /\ imp[r2].addr = imp[r1].addr
    /\ r1 \in imp[r2].prior
    /\ \A q \in Reqs \ {r1, r2} : imp[q].st = "idle" \/ imp[q].addr # imp[r1].addr

CacheProperty(r1, r2, gap) ==
    /\ gap < CacheTTL =>
          /\ netCalls[imp[r1].addr] = 1
          /\ Done(r2) => imp[r2].res = imp[r1].res
    /\ gap > CacheTTL => netCalls[imp[r1].addr] = 2

\* C1 as stated: the interval between the two requests is measured from the
\* moment the first was issued
C1_IssuedApart ==
    \A r1, r2 \in Reqs :
        TwoRequests(r1, r2) =>
            CacheProperty(r1, r2, imp[r2].issuedAt - imp[r1].issuedAt)

\* C1 amended: a second request issued less than TTL after the first's fetch
\* completed (the entry's timestamp) makes no network call and returns the
\* first's content; issued more than TTL after it, the two make two calls
C1_CacheProperty ==
    \A r1, r2 \in Reqs :
        TwoRequests(r1, r2) =>
            CacheProperty(r1, r2, imp[r2].issuedAt - imp[r1].doneAt)

\* the second request is served from the cache although it was issued more
\* than TTL after the first was
C1_Witness ==
    \E r1, r2 \in Reqs :
        /\ TwoRequests(r1, r2)
        /\ imp[r2].issuedAt - imp[r1].issuedAt > CacheTTL
        /\ imp[r2].issuedAt - imp[r1].doneAt < CacheTTL
        /\ imp[r2].cause = <<"hit">>
        /\ imp[r2].res = imp[r1].res
        /\ netCalls[imp[r1].addr] = 1

\* C2: at most one fetch is in flight per address
C2_Coalesced ==
    \A r1, r2 \in Reqs :
        (r1 # r2 /\ InFlight(r1) /\ InFlight(r2)) => imp[r1].addr # imp[r2].addr

\* every cache entry is the content of a fetch that succeeded, stamped when
\* it completed
CacheEntriesFetched ==
    \A a \in DOMAIN httpCache :
        \E q \in Reqs :
            /\ Fetched(q) /\ imp[q].addr = a
            /\ imp[q].res.contents = httpCache[a].content
            /\ imp[q].doneAt = httpCache[a].timestamp

\* C3: a load that ends on non-success status c with text t returns the one
\* error "HTTP c: t", and writes no cache entry
C3_StatusError ==
    /\ CacheEntriesFetched
    /\ \A r \in Reqs :
          (Done(r) /\ imp[r].cause[1] = "status") =>
              /\ imp[r].res.kind = "errors"
              /\ imp[r].res.text = HttpStatusText(imp[r].cause[2], imp[r].cause[3])

\* C4: a timed out load returns the timeout error, a load that failed in
\* transport returns the underlying message
C4_ErrorReflectsCause ==
    \A r \in Reqs :
        /\ (Done(r) /\ imp[r].cause = <<"timeout">>) =>
              imp[r].res.text = TimeoutText(HttpTimeout)
        /\ (Done(r) /\ imp[r].cause[1] = "transport") =>
              imp[r].res.text = imp[r].cause[2]

\* r2 was issued after the failed r1 had returned, for the same address, at a
\* moment when no fetch of that address had completed less than TTL before
RetryAfterFailure(r1, r2) ==
    /\ r1 # r2
    /\ Failed(r1)
    /\ imp[r2].st # "idle"
    /\ imp[r2].addr = imp[r1].addr
    /\ r1 \in imp[r2].prior
    /\ \A q \in imp[r2].prior :
          (imp[q].addr = imp[r1].addr /\ imp[q].cause = <<"ok">>) =>
              imp[r2].issuedAt - imp[q].doneAt >= CacheTTL

\* C5: a failed load writes no cache entry (every entry is the content of a
\* fetch that succeeded), and the next request for the address fetches anew
\* and returns the content when the remote answers with success
C5_FailureDoesNotPoison ==
    /\ CacheEntriesFetched
    /\ \A r1, r2 \in Reqs :
          RetryAfterFailure(r1, r2) =>
              /\ imp[r2].cause # <<"hit">>
              /\ netCalls[imp[r1].addr] >= 2
              /\ Fetched(r2) =>
                    /\ imp[r2].res.kind = "contents"
                    /\ imp[r2].addr \in DOMAIN httpCache

\* a load failed, the address was asked again, and the retry fetched content
C5_Witness ==
    \E r1, r2 \in Reqs :
        /\ RetryAfterFailure(r1, r2)
        /\ Fetched(r2)
        /\ imp[r2].res.kind = "contents"

(***************************************************************************)
(* Claims about the metadata normalizer.                                   *)
(***************************************************************************)
\* C10: normalization is idempotent,
\* normalize(normalize(m, p), p) = normalize(m, p)
C10_Idempotent == passes = 2 => twice = once

\* a nested '@' key was rewritten by the first pass, under a list, and the
\* second pass has run
C10_Witness ==
    /\ passes = 2
    /\ prefer
    /\ Len(once[2]) = Len(metaIn[2])
    /\ \E i \in 1..Len(metaIn[2]) :
          /\ metaIn[2][i][2][1] = "list"
          /\ \E j \in 1..Len(metaIn[2][i][2][2]) :
                /\ metaIn[2][i][2][2][j][1] = "map"
                /\ metaIn[2][i][2][2][j] # once[2][i][2][2][j]

(***************************************************************************)
(* Claims about the bridge.                                                *)
(***************************************************************************)
UrlFetching(r) == br[r].kind = "url" /\ br[r].st = "fetching"

\* C6: every remote load request eventually reaches a terminal outcome, also
\* when the remote never responds: no request stays fetching forever.
C6_RemoteLoadTerminates == \A r \in Reqs : UrlFetching(r) ~> BridgeDone(r)

\* the document has a metadata block that is not blank and parses
HasMetadata(doc) ==
    LET matches == FrontmatterMatch(doc)
    IN  /\ matches.found
        /\ Trim(matches.group) # <<>>
        /\ parseYamlContent(matches.group).ok

\* a file load of a document with metadata that has returned
HandedOff(r) == br[r].kind = "file" /\ BridgeDone(r) /\ HasMetadata(br[r].doc)

\* the artifact the file handler makes of a document
ArtifactOf(doc, path) ==
    VirtualFile(formatJsonString(processYamlLd(
                    parseYamlContent(FrontmatterMatch(doc).group).val, PreferDollarPrefix)),
                path)

\* C7: a file load of a document with non-empty, parseable metadata returns the
\* synthetic key of its path in the virtual namespace, the Store holds an
\* artifact under that key from then on, and a virtual load of the key made
\* after the return yields the artifact of a completed load of that path, never
\* a not-found error.
C7_Handoff ==
    \A r \in Reqs :
        HandedOff(r) =>
            LET key == "virtual:" \o br[r].path
            IN  /\ br[r].res.has = {"path", "namespace", "watchFiles"}
                /\ br[r].res.path = key
                /\ br[r].res.namespace = "virtual"
                /\ key \in DOMAIN virtualFs
                /\ "contents" \in virtualFs[key].has
                /\ (vlast.key = key /\ r \in vlast.after) =>
                       /\ "errors" \notin vlast.res.has
                       /\ \E q \in vlast.after :
                              /\ HandedOff(q) /\ br[q].path = br[r].path
                              /\ vlast.res = ArtifactOf(br[q].doc, br[q].path)

\* a load of "/a.mdx" with '@' metadata returned, then its key was loaded
C7_Witness ==
    \E r \in Reqs :
        /\ HandedOff(r) /\ br[r].doc = DocAtKey /\ br[r].path = "/a.mdx"
        /\ vlast.key = "virtual:/a.mdx" /\ r \in vlast.after
        /\ \E q \in Reqs : br[q].st = "reading" /\ q < r

\* C8: a virtual load of a key nothing was put under returns one error that
\* names the key, and no content.
C8_NotFound ==
    (vlast.key # "" /\ vlast.put = {}) =>
        /\ vlast.res.has = {"errors", "loader"}
        /\ vlast.res.errors = <<"Virtual file not found: " \o vlast.key>>

\* the key of "/a.mdx" was loaded before anything was put under it, and a
\* load of "/a.mdx" has put its artifact since
C8_Witness ==
    /\ vlast.key = "virtual:/a.mdx" /\ vlast.put = {}
    /\ "virtual:/a.mdx" \in DOMAIN virtualFs

\* C9: the Store holds under each key the artifact of the last put to it, whole,
\* and a get returns exactly that artifact.
C9_LastWriteWins ==
    /\ DOMAIN virtualFs = DOMAIN lastPut
    /\ \A k \in DOMAIN lastPut : virtualFs[k] = lastPut[k]
    /\ vlast.put # {} => vlast.put = {vlast.res}

\* two loads of one path read different documents, both put, and the key was
\* loaded after the second put
C9_Witness ==
    \E r1, r2 \in Reqs :
        /\ r1 # r2 /\ HandedOff(r1) /\ HandedOff(r2)
        /\ br[r1].path = br[r2].path
        /\ ArtifactOf(br[r1].doc, br[r1].path) # ArtifactOf(br[r2].doc, br[r2].path)
        /\ vlast.key = "virtual:" \o br[r1].path
        /\ vlast.after = {r1, r2}
        /\ vlast.put = {ArtifactOf(br[r2].doc, br[r2].path)}
        /\ r1 < r2

(***************************************************************************)
(* Claims about the keys and the shape of normalized metadata.             *)
(***************************************************************************)
Sigils == {"@", "$"}

HasSigil(key) == Len(key) > 0 /\ key[1] \in Sigils

\* the sigil the preference flag selects, and the other one
Canonical(p) == IF p THEN "$" ELSE "@"

NonCanonical(p) == IF p THEN "@" ELSE "$"

\* the keys of the mappings of a value, at every depth
RECURSIVE AllKeys(_)
AllKeys(value) ==
    IF value[1] = "map"
    THEN UNION {{value[2][i][1]} \cup AllKeys(value[2][i][2]) : i \in 1..Len(value[2])}
    ELSE IF value[1] = "list"
         THEN UNION {AllKeys(value[2][i]) : i \in 1..Len(value[2])}
         ELSE {}

\* C11: every key that begins with a sigil comes out with the canonical sigil
\* of the preference flag, at every depth: '@k' as '$k' when '$' is preferred,
\* '$k' as '@k' when '@' is preferred, and no key of the result carries the
\* other sigil.
C11_Canonical ==
    passes >= 1 =>
        /\ \A k \in AllKeys(once) : ~StartsWith(k, NonCanonical(prefer))
        /\ \A k \in AllKeys(metaIn) :
              HasSigil(k) => (<<Canonical(prefer)>> \o Tail(k)) \in AllKeys(once)

\* the paths of a value: the keys (indices, for a list) that lead from it to
\* each of its entries, at every depth
RECURSIVE KeyPaths(_)
KeyPaths(value) ==
    IF IsObject(value)
    THEN LET es == Entries(value)
         IN  UNION {{<<es[i][1]>>} \cup {<<es[i][1]>> \o p : p \in KeyPaths(es[i][2])} :
                        i \in 1..Len(es)}
    ELSE {}

LastKey(path) == path[Len(path)]

Contains(text, part) ==
    \E i \in 1..(Len(text) - Len(part) + 1) : SubSeq(text, i, i + Len(part) - 1) = part

\* a key as formatJsonString writes it
QuotedKey(key) == <<"\"">> \o key \o <<"\"", ":", " ">>

\* C12: with the preference flag false every '$' key stays a '$' key where it
\* was, at the top level and under nested mappings and lists, and the artifact
\* text carries it.
C12_DollarKept ==
    (passes >= 1 /\ ~prefer) =>
        \A p \in KeyPaths(metaIn) :
            StartsWith(LastKey(p), "$") =>
                /\ p \in KeyPaths(once)
                /\ Contains(formatJsonString(once), QuotedKey(LastKey(p)))

\* a '$' key under a list under a mapping went through with the flag false
C12_Witness ==
    /\ passes >= 1 /\ ~prefer
    /\ \E p \in KeyPaths(once) :
          /\ Len(p) = 3 /\ p[2] = <<"0">> /\ LastKey(p) = <<"$", "t">>
          /\ p \in KeyPaths(metaIn)
          /\ Contains(formatJsonString(once), QuotedKey(<<"$", "t">>))

\* the value a path leads to
RECURSIVE ValueAt(_, _)
ValueAt(value, path) ==
    IF path = <<>> THEN value
    ELSE LET es == Entries(value)
             i == CHOOSE j \in 1..Len(es) : es[j][1] = Head(path)
         IN  ValueAt(es[i][2], Tail(path))

\* the keys of a mapping (the indices of a list), in order
KeySeq(value) ==
    IF IsObject(value) THEN [i \in 1..Len(Entries(value)) |-> Entries(value)[i][1]]
    ELSE <<>>

IsPlain(key) == ~HasSigil(key)

\* a path none of whose keys has a sigil
PlainPath(path) == \A i \in 1..Len(path) : IsPlain(path[i])

Bare(key) == IF HasSigil(key) THEN Tail(key) ELSE key

\* the shape of a value: its nesting, list lengths, scalars, and keys
\* without their sigils
RECURSIVE Shape(_)
Shape(value) ==
    IF value[1] = "map"
    THEN <<"map", [i \in 1..Len(value[2]) |->
                      <<Bare(value[2][i][1]), Shape(value[2][i][2])>>]>>
    ELSE IF value[1] = "list"
         THEN <<"list", [i \in 1..Len(value[2]) |-> Shape(value[2][i])]>>
         ELSE value

\* no mapping of the value, at any depth, has one attribute under two keys
RECURSIVE CollisionFree(_)
CollisionFree(value) ==
    IF value[1] = "map"
    THEN /\ \A i, j \in 1..Len(value[2]) :
                i # j => Bare(value[2][i][1]) # Bare(value[2][j][1])
         /\ \A i \in 1..Len(value[2]) : CollisionFree(value[2][i][2])
    ELSE IF value[1] = "list"
         THEN \A i \in 1..Len(value[2]) : CollisionFree(value[2][i])
         ELSE TRUE

\* C14: lists are mapped element by element, length and order kept, scalars
\* pass through unchanged: the shape of the metadata is the same before
\* and after, only key sigils differ (here already for metadata in which no
\* attribute appears under both sigils).
C14_ShapeKept ==
    (passes >= 1 /\ CollisionFree(metaIn)) => Shape(once) = Shape(metaIn)

\* the mapping has one attribute under both sigils
BothSigils(value) ==
    \E i, j \in 1..Len(value[2]) :
        /\ i # j /\ HasSigil(value[2][i][1]) /\ HasSigil(value[2][j][1])
        /\ Bare(value[2][i][1]) = Bare(value[2][j][1])

\* C15: a mapping with one attribute under both sigils is not de-duplicated:
\* the normalized mapping has as many entries as the input mapping, and the
\* value of each input entry is the value of an entry of the result.
C15_NoDedup ==
    (passes >= 1 /\ BothSigils(metaIn)) =>
        /\ Len(once[2]) = Len(metaIn[2])
        /\ \A i \in 1..Len(metaIn[2]) :
              \E j \in 1..Len(once[2]) :
                  once[2][j][2] = processValue(metaIn[2][i][2], prefer)

(***************************************************************************)
(* Claims about the results of the load handlers.                          *)
(***************************************************************************)
\* the document has a metadata block, not blank, that yaml.load rejects or
\* reads as something other than a mapping or list
ParseFails(doc) ==
    LET matches == FrontmatterMatch(doc)
    IN  /\ matches.found
        /\ Trim(matches.group) # <<>>
        /\ LET parsed == yamlLoad(preprocessYaml(matches.group))
           IN  ~parsed.ok \/ parsed.val[1] \notin {"map", "list"}

FileDone(r) == br[r].kind = "file" /\ BridgeDone(r)

\* C16: a file load of a document whose metadata block fails to parse returns
\* exactly one error, the fixed text, and no content; nothing is put into the
\* Store for it in place of the metadata.
C16_SyntaxError ==
    \A r \in Reqs :
        (FileDone(r) /\ ParseFails(br[r].doc)) =>
            /\ br[r].res.has = {"errors", "loader"}
            /\ br[r].res.errors = <<"Invalid YAML syntax">>
            /\ (\A q \in Reqs \ {r} : br[q].path # br[r].path) =>
                   ("virtual:" \o br[r].path) \notin DOMAIN lastPut

\* one load read a block with a line that is no entry, another a block that
\* is a bare scalar, and both have returned
C16_Witness ==
    \E r, q \in Reqs :
        /\ FileDone(r) /\ br[r].doc = DocInvalid
        /\ FileDone(q) /\ br[q].doc = DocScalar
        /\ br[q].res.errors = <<"Invalid YAML syntax">>

Body(doc) == Trim(Drop(doc, FrontmatterMatch(doc).length))

\* C18: the artifact delivered for a document with non-empty, parseable
\* metadata carries the normalized metadata and the body text that follows the
\* closing marker.
C18_BodyKept ==
    \A r \in Reqs :
        (HandedOff(r) /\ \A q \in Reqs \ {r} : br[q].path # br[r].path) =>
            LET artifact == VirtualResult(virtualFs, br[r].res.path)
            IN  /\ "contents" \in artifact.has
                /\ Contains(artifact.contents,
                            formatJsonString(processYamlLd(
                                parseYamlContent(FrontmatterMatch(br[r].doc).group).val,
                                PreferDollarPrefix)))
                /\ Contains(artifact.contents, Body(br[r].doc))

(***************************************************************************)
(* Claims about the classification of identifiers.                         *)
(***************************************************************************)
RemoteNamespaces == {"http-import", "http-url"}

SchemePrefixes == {<<"h", "t", "t", "p", ":", "/", "/">>, <<"h", "t", "t", "p", "s", ":", "/", "/">>}

HasSchemePrefix(s) == \E sp \in SchemePrefixes : Len(sp) <= Len(s) /\ SubSeq(s, 1, Len(sp)) = sp

\* C19: an identifier is classified into the remote namespace exactly when it
\* begins with 'http://' or 'https://', and then its path is returned
\* unchanged.
C19_Classification ==
    resolved.by # "none" =>
        /\ (resolved.namespace \in RemoteNamespaces) <=> HasSchemePrefix(ident)
        /\ HasSchemePrefix(ident) => resolved.path = ident

\* 'https://h/a' was resolved by the second generation's callback
C19_Witness ==
    /\ ident = <<"h", "t", "t", "p", "s", ":", "/", "/", "h", "/", "a">>
    /\ resolved = [by |-> "url", path |-> ident, namespace |-> "http-url"]

\* a result has errors or content, never both; its errors list is not empty
ErrorsOrContent(res) ==
    IF "errors" \in res.has
    THEN "contents" \notin res.has /\ res.contents = <<>> /\ Len(res.errors) >= 1
    ELSE res.errors = <<>>

UrlDone(r) == br[r].kind = "url" /\ BridgeDone(r)

StatusTexts == {HttpStatusText(resp[1], resp[2]) : resp \in {x \in Responses : ~StatusOk(x[1])}}

FetchTexts == {t[2] : t \in {x \in Thrown : x[1] = "Error"}} \cup {"Failed to fetch"}

\* C20: no load callback raises; a returned result has errors or content and
\* never both; a failed read, a failed parse, a failed fetch, a status outside
\* 2xx and a missing key are each returned as the one entry of the errors list.
C20_ErrorsReturned ==
    /\ \A r \in Reqs : ~Raised(r)
    /\ \A r \in Reqs : BridgeDone(r) => ErrorsOrContent(br[r].res)
    /\ vlast.key # "" => ErrorsOrContent(vlast.res)
    /\ \A r \in Reqs :
          /\ (FileDone(r) /\ br[r].doc \notin Docs) =>
                 br[r].res.errors = <<"Failed to read file">>
          /\ (FileDone(r) /\ ParseFails(br[r].doc)) =>
                 br[r].res.errors = <<"Invalid YAML syntax">>
          /\ (UrlDone(r) /\ "errors" \in br[r].res.has) =>
                 /\ Len(br[r].res.errors) = 1
                 /\ br[r].res.errors[1] \in StatusTexts \cup FetchTexts
    /\ (vlast.key # "" /\ vlast.put = {}) =>
           vlast.res.errors = <<"Virtual file not found: " \o vlast.key>>

\* a read failed, a fetch was answered 404 and a key was missing, and each
\* callback returned its error
C20_Witness ==
    \E r, q \in Reqs :
        /\ FileDone(r) /\ br[r].res = Errors("Failed to read file")
        /\ UrlDone(q) /\ br[q].res = Errors("HTTP 404: Not Found")
        /\ vlast.res = Errors("Virtual file not found: virtual:/never.mdx")

\* a fetch was rejected with an Error, and with something else
FetchErrorsReturned ==
    \E r, q \in Reqs :
        /\ UrlDone(r) /\ br[r].res = Errors("ECONNRESET")
        /\ UrlDone(q) /\ br[q].res = Errors("Failed to fetch")

(***************************************************************************)
(* Claims about the steps of one remote load and about loads side by side. *)
(***************************************************************************)
\* the requests issued for address a that were not served from the cache
Misses(a) ==
    {r \in Reqs : imp[r].st # "idle" /\ imp[r].addr = a /\ imp[r].cause # <<"hit">>}

\* C21: the network calls made for an address are one for each request that
\* was not served from the cache and none for a request that was; a request
\* that failed has made no second call.
C21_OneCall ==
    \A a \in Addrs : netCalls[a] = Cardinality(Misses(a))

\* a request failed and a later one for the same address fetched: two calls
C21_Witness ==
    \E r, q \in Reqs :
        /\ Failed(r) /\ Fetched(q)
        /\ imp[q].addr = imp[r].addr
        /\ netCalls[imp[r].addr] = 2

\* what a map holds under a key: one value or none
Entry(m, k) == IF k \in DOMAIN m THEN {m[k]} ELSE {}

\* the key of the Store a load of the second generation works on
StoreKey(q) == IF q.kind = "file" THEN VirtualPath(q.path) ELSE q.path

\* no other request was issued for the address of r
AloneImport(r) == \A q \in Reqs \ {r} : imp[q].addr # imp[r].addr

\* no other load was issued for the key of r
AloneLoad(r) == \A q \in Reqs \ {r} : br[q].st = "idle" \/ StoreKey(br[q]) # StoreKey(br[r])

\* the result of a remote load and the entries under its address are what its
\* own events make them, whatever a request for another address did meanwhile
OwnOutcomeImport(r) ==
    LET a == imp[r].addr
    IN  IF imp[r].cause = <<"ok">>
        THEN /\ imp[r].res = ContentsResult(Concat(imp[r].chunks))
             /\ Entry(httpCache, a) = {[content |-> Concat(imp[r].chunks),
                                        timestamp |-> imp[r].doneAt]}
             /\ Entry(importFs, a) = {Concat(imp[r].chunks)}
        ELSE /\ imp[r].res.kind = "errors"
             /\ Entry(httpCache, a) = {}
             /\ Entry(importFs, a) = {}

\* the same for a file load and the entry under the key of its path
OwnOutcomeFile(r) ==
    LET key == VirtualPath(br[r].path)
    IN  IF HasMetadata(br[r].doc)
        THEN /\ br[r].res = Handoff(key, br[r].path)
             /\ Entry(virtualFs, key) = {ArtifactOf(br[r].doc, br[r].path)}
        ELSE Entry(virtualFs, key) = {}

\* a step changes the record of at most one request, and the entries only
\* under the key of the request that took it
OwnEntries ==
    /\ \A r, q \in Reqs : (imp'[r] # imp[r] /\ imp'[q] # imp[q]) => r = q
    /\ \A r, q \in Reqs : (br'[r] # br[r] /\ br'[q] # br[q]) => r = q
    /\ \A a \in Addrs :
          (Entry(httpCache', a) # Entry(httpCache, a) \/ Entry(importFs', a) # Entry(importFs, a)) =>
              \E r \in Reqs : imp'[r] # imp[r] /\ imp'[r].addr = a
    /\ \A k \in VirtualKeys :
          Entry(virtualFs', k) # Entry(virtualFs, k) =>
              \E r \in Reqs : br'[r] # br[r] /\ StoreKey(br'[r]) = k

\* C22: for loads of distinct addresses or documents, the result of each and
\* the cache and Store entries under its key are determined by its own events;
\* no step of one load changes the record or the entries of another.
C22_NoInterference ==
    /\ [](\A r \in Reqs :
             /\ (Done(r) /\ AloneImport(r)) => OwnOutcomeImport(r)
             /\ (FileDone(r) /\ AloneLoad(r)) => OwnOutcomeFile(r))
    /\ [][OwnEntries]_vars

\* two requests for distinct addresses were in flight together; the first
\* fetched, the second failed
C22_Witness ==
    /\ Fetched(1) /\ Failed(2)
    /\ imp[1].addr # imp[2].addr
    /\ 1 \notin imp[2].prior
    /\ OwnOutcomeImport(1) /\ OwnOutcomeImport(2)

\* two file loads of distinct paths have returned, one handed off, one not
FilesSideBySide ==
    /\ FileDone(1) /\ FileDone(2)
    /\ br[1].path # br[2].path
    /\ HasMetadata(br[1].doc) /\ ParseFails(br[2].doc)

(***************************************************************************)
(* Claims about what the Store and the cache keep.                         *)
(***************************************************************************)
\* every key of the map before the step is a key of it after
KeysKept(m, n) == DOMAIN m \subseteq DOMAIN n

\* C23: no step removes a key from the Store or from the cache (a put may
\* replace the value), and a key for which a virtual load returned an artifact
\* still has an artifact in every later state.
C23_NeverRemoved ==
    /\ [][/\ KeysKept(virtualFs, virtualFs')
          /\ KeysKept(importFs, importFs')
          /\ KeysKept(httpCache, httpCache')]_vars
    /\ []("contents" \in vlast.res.has =>
              /\ MapHas(virtualFs, vlast.key)
              /\ "contents" \in VirtualResult(virtualFs, vlast.key).has)

\* a virtual load returned an artifact and a later load of the same document
\* has replaced it: the key is still there, with another value
C23_Witness ==
    /\ "contents" \in vlast.res.has
    /\ MapHas(virtualFs, vlast.key)
    /\ virtualFs[vlast.key] # vlast.res

\* a cache entry older than the TTL is still in the cache
StaleEntryKept ==
    \E a \in DOMAIN httpCache : now - httpCache[a].timestamp >= CacheTTL /\ now > 0

\* the ages, when r was issued, of what requests for its address had fetched
\* by then; the cache entry is the youngest of them
AgesAtIssue(r) ==
    {imp[r].issuedAt - imp[q].doneAt :
        q \in {p \in imp[r].prior : imp[p].addr = imp[r].addr /\ imp[p].cause = <<"ok">>}}

\* C24: a request is served from the cache exactly when the entry for its
\* address is younger than the TTL, strictly; at an age equal to the TTL or
\* above it the request calls the network; with TTL 0 nothing is ever served
\* from the cache.
C24_StrictTTL ==
    /\ \A r \in Reqs :
          imp[r].st # "idle" =>
              (imp[r].cause = <<"hit">> <=> \E age \in AgesAtIssue(r) : age < CacheTTL)
    /\ CacheTTL = 0 => \A r \in Reqs : imp[r].cause # <<"hit">>

\* a request issued when the entry's age was exactly the TTL called the network
C24_Witness ==
    \E r \in Reqs :
        /\ CacheTTL = 1
        /\ AgesAtIssue(r) = {CacheTTL}
        /\ imp[r].st = "pending"
        /\ netCalls[imp[r].addr] = 2

\* with TTL 0 a request issued at the very time the entry was written missed
ZeroTTLMiss ==
    \E r \in Reqs : CacheTTL = 0 /\ AgesAtIssue(r) = {0} /\ imp[r].st = "pending"

\* C25: a load through one plugin instance is not answered from a cache or
\* Store entry written by a load through another instance.
C25_InstancesApart ==
    \A r \in Reqs :
        /\ imp[r].cause = <<"hit">> =>
               \E q \in imp[r].prior :
                   Instance(q) = Instance(r) /\ imp[q].addr = imp[r].addr /\ Fetched(q)
        /\ br[r].cached =>
               \E q \in Reqs \ {r} :
                   Instance(q) = Instance(r) /\ UrlDone(q) /\ br[q].path = br[r].path

(***************************************************************************)
(* Claims about a file load followed by a virtual load.                    *)
(***************************************************************************)
\* the document has no metadata block at position 0, or a blank one
NoMetadata(doc) ==
    \/ ~FrontmatterMatch(doc).found
    \/ Trim(FrontmatterMatch(doc).group) = <<>>

\* result.path || '': the path a file load returned, '' when it returned none
ReturnedPath(res) == IF "path" \in res.has THEN res.path ELSE ""

\* C26: after a file load of a document without metadata, or with a blank
\* block, has returned, a virtual load of the path it returned yields the
\* document as it was read, with loader 'mdx'.
C26_PassthroughByPath ==
    \A r \in Reqs :
        (FileDone(r) /\ br[r].doc \in Docs /\ NoMetadata(br[r].doc)) =>
            LET virtualResult == VirtualResult(virtualFs, ReturnedPath(br[r].res))
            IN  /\ "contents" \in virtualResult.has
                /\ virtualResult.contents = br[r].doc
                /\ virtualResult.loader = "mdx"

\* C27: after a remote load of an address has returned content, fetched or
\* from the cache, a virtual load of the address returns that content, the
\* empty string included, and not an error.
C27_VirtualAfterRemote ==
    \A r \in Reqs :
        (Done(r) /\ imp[r].res.kind = "contents" /\ AloneImport(r)) =>
            ImportVirtualResult(importFs, imp[r].addr) = ContentsResult(imp[r].res.contents)

(***************************************************************************)
(* Claims about what a failed load leaves behind.                          *)
(***************************************************************************)
\* the step is one of request r of the first generation, other than its
\* return of content
ImportStepWithoutContent(r) ==
    imp'[r] # imp[r] /\ imp'[r].res.kind # "contents"

\* the step is one of load r of the second generation, other than its return
\* of a result without errors
LoadStepWithoutResult(r) ==
    br'[r] # br[r] /\ ~(br'[r].st = "done" /\ "errors" \notin br'[r].res.has)

\* r failed re-fetching what q, the only other request for the address, had
\* fetched before r was issued
FailedRefetch(r, q) ==
    /\ Failed(r) /\ Fetched(q) /\ q \in imp[r].prior
    /\ imp[q].addr = imp[r].addr
    /\ \A p \in Reqs \ {r, q} : imp[p].addr # imp[r].addr

\* C28: every step of a load except the one that returns its content leaves
\* the cache and the Store as they are, so a load that ends in an error has
\* added, replaced and removed nothing; after a failed re-fetch the stale
\* entry is there with its old content and timestamp.
C28_ErrorLeavesNoTrace ==
    /\ [][\A r \in Reqs :
             /\ ImportStepWithoutContent(r) => UNCHANGED <<httpCache, importFs>>
             /\ LoadStepWithoutResult(r) => UNCHANGED virtualFs]_vars
    /\ [](\A r, q \in Reqs :
             FailedRefetch(r, q) =>
                 Entry(httpCache, imp[r].addr) =
                     {[content |-> imp[q].res.contents, timestamp |-> imp[q].doneAt]})

\* a re-fetch of a stale entry failed and the entry is still in the cache
C28_Witness ==
    \E r, q \in Reqs :
        /\ FailedRefetch(r, q)
        /\ imp[r].issuedAt - imp[q].doneAt >= CacheTTL
        /\ MapHas(httpCache, imp[r].addr)
        /\ httpCache[imp[r].addr].timestamp = imp[q].doneAt

\* a file load failed to parse after another load of the same path had put
\* its artifact, which is still in the Store
SyntaxErrorKeepsArtifact ==
    \E r, q \in Reqs :
        /\ FileDone(r) /\ ParseFails(br[r].doc)
        /\ HandedOff(q) /\ br[q].path = br[r].path
        /\ Entry(virtualFs, VirtualPath(br[r].path)) = {ArtifactOf(br[q].doc, br[q].path)}

(***************************************************************************)
(* Claims about the body of a fetch and about events after its end.        *)
(***************************************************************************)
\* the fetch of r ended before 'end', after data had arrived
CutOff(r) ==
    /\ Failed(r)
    /\ imp[r].cause[1] \in {"transport", "timeout"}
    /\ imp[r].chunks # <<>>
    /\ imp[r].late = 0

\* the step is the 'end' of the response of r: the promise resolves with
\* every chunk that arrived
EndOf(r) ==
    /\ imp[r].st = "body"
    /\ imp'[r].cause = <<"ok">>
    /\ imp'[r].res = ContentsResult(Concat(imp[r].chunks))

\* C29: the cache entry of an address changes only at the 'end' of a response
\* for it, to the whole body that response delivered; every entry is the
\* content of a fetch that ended so, and a fetch that failed or was cut off
\* after data had arrived has written none.
C29_WholeBodyCached ==
    /\ [][\A a \in Addrs :
             Entry(httpCache', a) # Entry(httpCache, a) =>
                 \E r \in Reqs :
                     /\ EndOf(r) /\ imp[r].addr = a
                     /\ Entry(httpCache', a) =
                            {[content |-> Concat(imp[r].chunks), timestamp |-> now]}]_vars
    /\ [](\A a \in DOMAIN httpCache :
             \E r \in Reqs :
                 /\ Fetched(r) /\ imp[r].addr = a
                 /\ httpCache[a].content = Concat(imp[r].chunks)
                 /\ httpCache[a].timestamp = imp[r].doneAt)

\* a response was cut off after a chunk had arrived, and the cache has no
\* entry for its address
C29_Witness ==
    \E r \in Reqs :
        /\ CutOff(r)
        /\ imp[r].cause[1] = "transport"
        /\ ~MapHas(httpCache, imp[r].addr)

\* the fetch of r ended in the timeout
TimedOut(r) == Done(r) /\ imp[r].cause = <<"timeout">>

\* C30: once a remote load has ended in the timeout, no later step changes the
\* result it returned or the cause it ended with, and a step of that request
\* (a late response, data, end or error) writes no cache or Store entry.
C30_Terminal ==
    [][\A r \in Reqs :
          TimedOut(r) =>
              /\ imp'[r].res = imp[r].res
              /\ imp'[r].st = imp[r].st /\ imp'[r].cause = imp[r].cause
              /\ imp'[r] # imp[r] => UNCHANGED <<httpCache, importFs, netCalls>>]_vars

\* a request timed out while the body was arriving and an event came after
C30_Witness ==
    \E r \in Reqs :
        /\ TimedOut(r)
        /\ imp[r].late = MaxLate
        /\ imp[r].res = ErrorResult("HTTP 404: Not Found")
        /\ ~MapHas(httpCache, imp[r].addr)

(***************************************************************************)
(* Claims about the entries a load may touch.                              *)
(***************************************************************************)
\* the entries of the first generation's maps under address a are as before
ImportEntriesKept(a) ==
    /\ Entry(httpCache', a) = Entry(httpCache, a)
    /\ Entry(importFs', a) = Entry(importFs, a)

\* the entry under key k is as before, or is a whole artifact made by the
\* load that took the step
ReplacedWhole(k, q) ==
    \/ Entry(virtualFs', k) = Entry(virtualFs, k)
    \/ /\ MapHas(virtualFs', k)
       /\ virtualFs'[k] = VirtualFile(virtualFs'[k].contents, q.path)

\* C31: a step of a load leaves every cache and Store entry under another key
\* than its own as it was; an entry under its own key is left or replaced by a
\* whole artifact; a virtual load changes no entry.
C31_OwnKeyOnly ==
    [][/\ \A r \in Reqs :
             imp'[r] # imp[r] => \A a \in Addrs \ {imp'[r].addr} : ImportEntriesKept(a)
       /\ \A r \in Reqs :
             br'[r] # br[r] =>
                 /\ \A k \in VirtualKeys \ {StoreKey(br'[r])} :
                       Entry(virtualFs', k) = Entry(virtualFs, k)
                 /\ ReplacedWhole(StoreKey(br'[r]), br'[r])
       /\ vlast' # vlast => virtualFs' = virtualFs]_vars

\* a file load and a remote load have both put their artifact, each under its
\* own key
C31_Witness ==
    \E r, q \in Reqs :
        /\ HandedOff(r)
        /\ UrlDone(q) /\ ~br[q].cached /\ "contents" \in br[q].res.has
        /\ DOMAIN virtualFs = {VirtualPath(br[r].path), br[q].path}
        /\ virtualFs[br[q].path] = br[q].res
        /\ virtualFs[VirtualPath(br[r].path)] = ArtifactOf(br[r].doc, br[r].path)

(***************************************************************************)
(* Claims about the recognition and the parsing of the metadata block.     *)
(***************************************************************************)
ThreeHyphens == <<"-", "-", "-">>

\* the block between a first line that is exactly '---' and the first later
\* line that is exactly '---'
LineBlock(doc) ==
    LET lines == SplitLines(doc)
        Closers == {i \in 2..Len(lines) : lines[i] = ThreeHyphens}
    IN  IF lines[1] = ThreeHyphens /\ Closers # {}
        THEN LET i == CHOOSE j \in Closers : \A k \in Closers : j <= k
             IN  [found |-> TRUE, group |-> JoinLines(SubSeq(lines, 2, i - 1))]
        ELSE [found |-> FALSE, group |-> <<>>]

\* C32: a file load takes as the metadata block what lies between a first
\* line that is exactly three hyphens and the first later line that is exactly
\* three hyphens; a document without such lines is passed through as read.
C32_ExactMarkers ==
    \A r \in Reqs :
        (FileDone(r) /\ br[r].doc \in Docs) =>
            LET block == LineBlock(br[r].doc)
                matches == FrontmatterMatch(br[r].doc)
            IN  IF block.found /\ Trim(block.group) # <<>>
                THEN matches.found /\ matches.group = block.group
                ELSE br[r].res = Passthrough(br[r].doc)

\* the document has a metadata block, not blank, that does not parse to a
\* mapping: yaml.load rejects it, or reads a scalar or a list
NotMapping(doc) ==
    LET matches == FrontmatterMatch(doc)
    IN  /\ matches.found
        /\ Trim(matches.group) # <<>>
        /\ LET parsed == yamlLoad(preprocessYaml(matches.group))
           IN  ~parsed.ok \/ parsed.val[1] # "map"

\* C33: a file load of a document whose metadata block parses to something
\* other than a mapping returns the syntax error, and no artifact is put into
\* the Store for it.
C33_MappingOnly ==
    \A r \in Reqs :
        (FileDone(r) /\ NotMapping(br[r].doc)) =>
            /\ br[r].res = Errors("Invalid YAML syntax")
            /\ AloneLoad(r) => ~MapHas(virtualFs, VirtualPath(br[r].path))

(***************************************************************************)
(* Claims about the cache entry over hits and over overlapping fetches.    *)
(***************************************************************************)
\* the step is the return of r from the cache
HitOf(r) == imp[r].st = "idle" /\ imp'[r].cause = <<"hit">>

\* C34: the step in which a request is served from the cache calls the
\* network for no address and leaves the cache as it is, the entry's content
\* and timestamp included; every timestamp in the cache is the end time of a
\* fetch, never the time of a hit.
C34_HitReadOnly ==
    /\ [][\A r \in Reqs :
             HitOf(r) => (httpCache' = httpCache /\ netCalls' = netCalls)]_vars
    /\ [](\A a \in DOMAIN httpCache :
             \E q \in Reqs :
                 Fetched(q) /\ imp[q].addr = a /\ httpCache[a].timestamp = imp[q].doneAt)

\* a request was served from the cache after the clock had moved on: the
\* entry still carries the time of its fetch
C34_Witness ==
    \E r \in Reqs :
        /\ imp[r].cause = <<"hit">>
        /\ MapHas(httpCache, imp[r].addr)
        /\ httpCache[imp[r].addr].timestamp < imp[r].issuedAt
        /\ httpCache[imp[r].addr].content = imp[r].res.contents

\* the requests that fetched address a
FetchedFor(a) == {q \in Reqs : Fetched(q) /\ imp[q].addr = a}

\* C35: the cache entry of an address carries the end time of the fetch of it
\* that ended last and the body of a fetch that ended then, also when fetches
\* of the address overlapped; no step lowers an entry's timestamp.
C35_LatestFetchWins ==
    /\ [](\A a \in DOMAIN httpCache :
             \E q \in FetchedFor(a) :
                 /\ \A p \in FetchedFor(a) : imp[p].doneAt <= imp[q].doneAt
                 /\ httpCache[a] = [content |-> imp[q].res.contents,
                                    timestamp |-> imp[q].doneAt])
    /\ [][\A a \in DOMAIN httpCache :
             /\ MapHas(httpCache', a)
             /\ httpCache'[a].timestamp >= httpCache[a].timestamp]_vars

\* two fetches of one address overlapped and both succeeded with different
\* bodies; the cache holds the body and time of the one that ended later
C35_Witness ==
    \E r, q \in Reqs :
        /\ Fetched(r) /\ Fetched(q)
        /\ imp[r].addr = imp[q].addr
        /\ r \notin imp[q].prior /\ q \notin imp[r].prior
        /\ imp[r].doneAt < imp[q].doneAt
        /\ imp[r].res.contents # imp[q].res.contents
        /\ httpCache[imp[q].addr] = [content |-> imp[q].res.contents,
                                     timestamp |-> imp[q].doneAt]

(***************************************************************************)
(* Claims about the keys of the Store.                                     *)
(***************************************************************************)
\* the artifact under key k was put by a file load of path p
PutByFile(k, p) == k = VirtualPath(p) /\ virtualFs[k].watchFiles = <<p>>

\* the artifact under key k was put by a remote load of address k
PutByUrl(k) == k \in Addrs /\ virtualFs[k].watchFiles = <<k>>

\* C36: file loads of the same path return the same key and of distinct paths
\* distinct keys; no key of a file load is the key of a remote load; every
\* Store entry is under the key of the one load that put it, an address for a
\* remote load and 'virtual:' with the path for a file load.
C36_KeysApart ==
    /\ \A r, q \in Reqs :
          (HandedOff(r) /\ HandedOff(q)) =>
              (br[r].res.path = br[q].res.path <=> br[r].path = br[q].path)
    /\ \A r, q \in Reqs :
          (HandedOff(r) /\ UrlDone(q)) => br[r].res.path # StoreKey(br[q])
    /\ \A k \in DOMAIN virtualFs :
          /\ PutByUrl(k) \/ \E p \in Paths : PutByFile(k, p)
          /\ \A p, p2 \in Paths : (PutByFile(k, p) /\ PutByFile(k, p2)) => p = p2
          /\ ~(PutByUrl(k) /\ \E p \in Paths : PutByFile(k, p))

\* two file loads of distinct paths have put their artifacts under two keys
C36_Witness ==
    \E r, q \in Reqs :
        /\ HandedOff(r) /\ HandedOff(q)
        /\ br[r].path # br[q].path
        /\ DOMAIN virtualFs = {br[r].res.path, br[q].res.path}
        /\ PutByFile(br[r].res.path, br[r].path)
        /\ PutByFile(br[q].res.path, br[q].path)

(***************************************************************************)
(* Claims about the sentinel rewrite around yaml.load.                     *)
(***************************************************************************)
\* the markers '- ' of sequence items at the head of a line's text
RECURSIVE ItemMarkers(_)
ItemMarkers(txt) ==
    IF IsSeqItem(txt) /\ Len(txt) > 1
    THEN LET item == TrimStart(Tail(txt))
         IN  SubSeq(txt, 1, Len(txt) - Len(item)) \o ItemMarkers(item)
    ELSE <<>>

\* the line is a key that begins with '@', after its indentation and markers
IsAtKeyLine(line) ==
    LET txt == Drop(line, Len(Indent(line)))
        key == Drop(txt, Len(ItemMarkers(txt)))
    IN  StartsWith(key, "@") /\ HasKeyColon(key)

\* the key of such a line
AtKeyOf(line) ==
    LET txt == Drop(line, Len(Indent(line)))
        key == Drop(txt, Len(ItemMarkers(txt)))
    IN  TrimEnd(SubSeq(key, 1, KeyColon(key) - 1))

\* the line with the sentinel before its '@' key and nothing else changed
MarkedInPlace(line) ==
    IF IsAtKeyLine(line)
    THEN LET txt == Drop(line, Len(Indent(line)))
             at == Len(Indent(line)) + Len(ItemMarkers(txt))
         IN  SubSeq(line, 1, at) \o Sentinel \o Drop(line, at)
    ELSE line

\* the metadata of the source: its '@' keys where its lines put them
SourceParse(content) ==
    LET lines == SplitLines(content)
        parsed == yamlLoad(JoinLines([i \in 1..Len(lines) |-> MarkedInPlace(lines[i])]))
    IN  IF parsed.ok /\ IsObject(parsed.val)
        THEN [ok |-> TRUE, val |-> postprocessYaml(parsed.val)]
        ELSE [ok |-> FALSE, val |-> NullValue]

\* preprocessYaml leaves every line its indentation
IndentKept(content) ==
    LET src == SplitLines(content)
        pre == SplitLines(preprocessYaml(content))
    IN  /\ Len(pre) = Len(src)
        /\ \A i \in 1..Len(src) : Indent(pre[i]) = Indent(src[i])

\* the source has a key that begins with '@'
HasAtKey(content) == \E i \in 1..Len(SplitLines(content)) : IsAtKeyLine(SplitLines(content)[i])

\* C37: when a file load has parsed a metadata block with keys that begin
\* with '@', the rewrite kept every line's indentation, every such key of the
\* source is a key of the parsed metadata, no key of it carries the sentinel,
\* and the parsed metadata is the source's own nesting.
C37_SentinelRoundTrip ==
    \A r \in Reqs :
        (FileDone(r) /\ br[r].doc \in Docs /\ FrontmatterMatch(br[r].doc).found
           /\ HasAtKey(FrontmatterMatch(br[r].doc).group)) =>
            LET block == FrontmatterMatch(br[r].doc).group
                lines == SplitLines(block)
                parsed == parseYamlContent(block)
            IN  /\ IndentKept(block)
                /\ parsed.ok =>
                      /\ \A i \in 1..Len(lines) :
                            IsAtKeyLine(lines[i]) => AtKeyOf(lines[i]) \in AllKeys(parsed.val)
                      /\ \A key \in AllKeys(parsed.val) : ~IsPrefix(Sentinel, key)
                      /\ parsed = SourceParse(block)

====
